---- MODULE Spec2Model ----
(***************************************************************************)
(* A model of terrestria: its spatial/physics core, server and client.     *)
(*                                                                         *)
(*   - FreeModeImpl (back/src/free_mode_impl.ts): the physics adapter.     *)
(*     Its fields, the two collision handlers registered in its            *)
(*     constructor, the fences, addComponent, getComponent,                *)
(*     removeComponent, moveAgent and entitiesWithinRadius.                *)
(*   - the matter-js engine is the environment: it owns the bodies'        *)
(*     positions and velocities, the world's body list and the table of    *)
(*     collision pairs, and it calls the handlers once per update.         *)
(*   - the grid-mode movement rules (GridModeImpl) on a small grid.        *)
(*   - the synchronized components: AgentSystem, CSpatial and the          *)
(*     ServerSpatialComponent, with their dirty flags.                     *)
(*   - the component table of the RenderSystem.                            *)
(*   - App (back/src/app.ts): the connections and the error boundary       *)
(*     _wrap; the users, the games and the check of the connections.       *)
(*   - the client App: the queue of server responses and the tick.         *)
(*   - the delayed callbacks of the client's animations and of the blimp.  *)
(*   - the award notifications of the client and the frames that show      *)
(*     and remove them.                                                    *)
(*                                                                         *)
(* Specifications:                                                         *)
(*   Spec          one moving entity: moveAgent under every position,      *)
(*                 velocity and grounded record the adapter can hold       *)
(*   SpecCollision a stack of bodies on the floor, added and removed:      *)
(*                 the collision bookkeeping of the two handlers           *)
(*   SpecGrid      placements and moves on the grid                        *)
(*   SpecSync      mutations and harvests of agent components and of a     *)
(*                 CSpatial                                                *)
(*   SpecServer    the operations of a ServerSpatialComponent              *)
(*   SpecLookup    lookups in the three component tables                   *)
(*   SpecQuery     entitiesWithinRadius over bodies in a stack             *)
(*   SpecFences    the construction of the fences, for every region        *)
(*   SpecApp       messages, awaits, sign-ups and errors on the connections*)
(*   SpecLobby     joins, respawns, actions, pongs, closes and connection  *)
(*                 checks on a server whose one game is nearly full        *)
(*   SpecClient    server messages, key events, ticks and logOut of the    *)
(*                 client                                                  *)
(*   SpecGameOver  SpecLobby, and games that end                           *)
(*   SpecCallbacks animations, scheduled functions and removals            *)
(*   SpecAwards    awards granted and frames, at every gap between frames  *)
(***************************************************************************)
EXTENDS Integers, Sequences, FiniteSets, TLC

(***************************************************************************)
(* Bounds of the model.                                                    *)
(***************************************************************************)
\* entities that can own a free-mode component: 1..NumEntities
NumEntities == 2
\* vertices the engine can report as contacts, dealt to the bodies in turn
NumVertices == 2
\* pairs the engine keeps in its table at one time
MaxPairs == 2
\* body positions are i * PosStep for i in 0..MaxPos, on both axes
MaxPos == 2
PosStep == 16
\* the grid has GridW columns and GridH rows
GridW == 2
GridH == 2
\* a subcomponent is placed at one of MaxCoord + 1 positions
MaxCoord == 1
\* the regions fences are built for lie in RegionW columns and RegionH rows
RegionW == 3
RegionH == 2
\* connections to the App, and the messages of one that await an answer
NumSockets == 2
MaxInFlight == 1
\* server messages the client receives, and the length of its action queue
MaxMessages == 3
MaxActions == 1
\* handles the client's scheduler gives out, and frames the blimp is moved
MaxHandles == 3
MaxFrames == 3
\* sockets that connect to the server, and players the games are given
NumClients == 2
MaxFresh == 3
\* awards the client is granted, and the time the frames go on for
MaxAwards == 2
MaxClock == 6000

(***************************************************************************)
(* Program constants.                                                      *)
(***************************************************************************)
PLAYER_VELOCITY_H == 6
PLAYER_VELOCITY_V == 10
BLOCK_SZ_WLD == 32
MAX_PLAYERS_PER_GAME == 8
NOTIFICATION_DURATION_MS == 2000
NOTIFICATION_DELAY_MS == 500

Entities == 1 .. NumEntities
Directions == {"UP", "RIGHT", "DOWN", "LEFT"}

\* The engine's id of the body of entity e; the fence has a body id of its
\* own and no component.
BodyOf(e) == NumEntities + e
FenceBody == 0
Bodies == {FenceBody} \cup {BodyOf(e) : e \in Entities}

\* Pair.id(bodyA, bodyB): the two body ids, the smaller first.
PairIds == {p \in Bodies \X Bodies : p[1] < p[2]}
\* Contact.id(vertex): the owning body's id and the vertex's index.  Vertex
\* number n belongs to body n modulo the number of bodies, the fence first.
Vertices(b) ==
  LET pos == IF b = FenceBody THEN 1 ELSE b - NumEntities + 1
  IN {<<b, i>> : i \in {j \in 1 .. NumVertices :
                          (j - 1) * (NumEntities + 1) + pos <= NumVertices}}
ContactIds == UNION {Vertices(b) : b \in Bodies}
PairVertices(p) == Vertices(p[1]) \cup Vertices(p[2])

Positions == {i * PosStep : i \in 0 .. MaxPos}
VelXs == {-PLAYER_VELOCITY_H, 2, PLAYER_VELOCITY_H}
VelYs == {-PLAYER_VELOCITY_V, 3}

\* All orders in which a set can be visited.
Orders(S) == {s \in [1 .. Cardinality(S) -> S] :
                \A i, j \in 1 .. Cardinality(S) : s[i] = s[j] => i = j}

Restrict(f, S) == [k \in DOMAIN f \cap S |-> f[k]]
Put(f, k, v) == [j \in DOMAIN f \cup {k} |-> IF j = k THEN v ELSE f[j]]
Drop(f, k) == [j \in DOMAIN f \ {k} |-> f[j]]

VARIABLES
  componentsByEntityId,  \* FreeModeImpl._componentsByEntityId: entity -> body
  componentsByBodyId,    \* FreeModeImpl._componentsByBodyId: body -> entity
  grounded,              \* FreeModeImpl._grounded: entity -> contact id
  collisions,            \* FreeModeImpl._collisions: the keys, pair ids
  body,                  \* c.body of every entity: x, y, vx, vy
  world,                 \* engine.world.bodies
  pairs,                 \* the engine's pairs: pair id -> isActive, contacts
  evActive,              \* pending collisionActive: pair -> activeContacts
  evEnd,                 \* pending collisionEnd event: the pairs
  standing,              \* entities the update showed a ground contact for
  notified,              \* pairs notified active and not yet notified ended
  pc,                    \* position inside FreeModeImpl.update
  call,                  \* the operation that ran last, with its arguments
  ret,                   \* what it returned
  posted                 \* the events its last step posted, in order

VARIABLES
  gridCells,             \* Grid: cell -> the ids of the entities in it
  gridPos,               \* grid-mode subcomponents: entity -> its cell
  gridProps,             \* grid-mode properties the entity was built with
  gridCall,              \* the grid operation that ran last
  gridRet                \* what it returned

gridVars == <<gridCells, gridPos, gridProps, gridCall, gridRet>>

freeVars == <<componentsByEntityId, componentsByBodyId, grounded, collisions,
              body, world, pairs, evActive, evEnd, standing, notified, pc,
              call, ret, posted>>

VARIABLES
  agentComponents,       \* AgentSystem._components, in insertion order
  agentMutated,          \* agent components changed since the last harvest
  cSpatial,              \* a CSpatial: currentMode, gridMode, freeMode, ...
  spatialMutated,        \* the CSpatial was changed since the last harvest
  syncCall,              \* the operation of these components that ran last
  syncRet                \* what it returned

syncVars == <<agentComponents, agentMutated, cSpatial, spatialMutated,
              syncCall, syncRet>>

VARIABLES
  serverSpatial,         \* a ServerSpatialComponent
  serverCall,            \* the operation on it that ran last
  serverRet              \* what it returned

serverVars == <<serverSpatial, serverCall, serverRet>>

VARIABLES
  renderComponents,      \* RenderSystem._components: the keys
  renderCall,            \* the operation of the RenderSystem that ran last
  renderRet              \* what it returned

renderVars == <<renderComponents, renderCall, renderRet>>

VARIABLES
  gravRegion,            \* FreeModeImpl._gravRegion: the cells it contains
  fences,                \* the static bodies _setupFences added, in order
  fenced                 \* the constructor has called _setupFences

fenceVars == <<gravRegion, fences, fenced>>

VARIABLES
  sockOpen,              \* per connection: the socket's readyState is OPEN
  inFlight,              \* per connection: its _wrap calls awaiting fn()
  sent,                  \* per connection: what the last step sent to it
  appLog,                \* what the last step wrote with _logger.error
  escaped,               \* an error has left _wrap
  appCall                \* the step of the App that ran last

appVars == <<sockOpen, inFlight, sent, appLog, escaped, appCall>>

VARIABLES
  responseQueue,         \* client App._responseQueue: the messages, in order
  actionQueue,           \* client App._actionQueue: the actions, in order
  clientWs,              \* client App._ws is defined
  playerId,              \* client App._playerId
  mapData,               \* client App._mapData: the MAP_DATA message it
                         \* came with, NoMap while undefined
  arrived,               \* server messages received so far: 1 .. arrived
  handled,               \* the messages _handleServerMessage was given
  discarded,             \* the messages logOut dropped from the queue
  tickTrace,             \* what the last step of the client did, in order
  built,                 \* the constructEntities calls of the last step
  clientCall             \* the step of the client that ran last

clientVars == <<responseQueue, actionQueue, clientWs, playerId, mapData,
                arrived, handled, discarded, tickTrace, built, clientCall>>

VARIABLES
  frontEntities,         \* client EntityManager: the entities it holds
  sprite,                \* the CSprite of the entity: images and animations
  scheduled,             \* client Scheduler: the functions waiting to fire
  nextHandle,            \* the handle the next addFunction returns
  blimp,                 \* the blimp: its entity, x and scheduled function
  schedCall,             \* the step of the delayed callbacks that ran last
  schedRet               \* what it returned or threw

schedVars == <<frontEntities, sprite, scheduled, nextHandle, blimp,
               schedCall, schedRet>>

VARIABLES
  socks,                 \* per socket: state, isAlive, userId
  users,                 \* App._users: player id -> ws, playerId, game
  games,                 \* App._games: the ids of the games
  players,               \* per game: the ids of its players
  terminations,          \* per game: the calls of its terminate()
  nextEntityId,          \* the id the next new player gets
  nextGameId,            \* the id the next new game gets
  lobbyCall,             \* the step of the server that ran last
  lobbySent,             \* the responses that step sent, in order
  forwarded              \* the actions that step gave to games

lobbyVars == <<socks, users, games, players, terminations, nextEntityId,
               nextGameId, lobbyCall, lobbySent, forwarded>>

VARIABLES
  clock,                 \* the time, in milliseconds
  cantShowUntil,         \* cantShowUntil.value of the award notification
  awardFns,              \* client Scheduler: the functions of part_007
  awardLog               \* the awards granted, displayed and removed

awardVars == <<clock, cantShowUntil, awardFns, awardLog>>

\* What the operations of one part of the program leave alone
nonFreeVars == <<gridVars, syncVars, serverVars, renderVars, fenceVars,
                 appVars, clientVars, schedVars, lobbyVars, awardVars>>
nonGridVars == <<freeVars, syncVars, serverVars, renderVars, fenceVars,
                 appVars, clientVars, schedVars, lobbyVars, awardVars>>
nonSyncVars == <<freeVars, gridVars, serverVars, renderVars, fenceVars,
                 appVars, clientVars, schedVars, lobbyVars, awardVars>>
nonServerVars == <<freeVars, gridVars, syncVars, renderVars, fenceVars,
                   appVars, clientVars, schedVars, lobbyVars, awardVars>>
nonRenderVars == <<freeVars, gridVars, syncVars, serverVars, fenceVars,
                   appVars, clientVars, schedVars, lobbyVars, awardVars>>
nonFenceVars == <<freeVars, gridVars, syncVars, serverVars, renderVars,
                  appVars, clientVars, schedVars, lobbyVars, awardVars>>
nonAppVars == <<freeVars, gridVars, syncVars, serverVars, renderVars,
                fenceVars, clientVars, schedVars, lobbyVars, awardVars>>
nonClientVars == <<freeVars, gridVars, syncVars, serverVars, renderVars,
                   fenceVars, appVars, schedVars, lobbyVars, awardVars>>
nonSchedVars == <<freeVars, gridVars, syncVars, serverVars, renderVars,
                  fenceVars, appVars, clientVars, lobbyVars, awardVars>>
nonLobbyVars == <<freeVars, gridVars, syncVars, serverVars, renderVars,
                  fenceVars, appVars, clientVars, schedVars, awardVars>>
nonAwardVars == <<freeVars, gridVars, syncVars, serverVars, renderVars,
                  fenceVars, appVars, clientVars, schedVars, lobbyVars>>
nonSchedRenderVars == <<freeVars, gridVars, syncVars, serverVars, fenceVars,
                        appVars, clientVars, lobbyVars, awardVars>>

(***************************************************************************)
(* Geometry helpers and the gravity region.                                *)
(***************************************************************************)
\* directionToVector (common/geometry): y grows downwards, as in the engine
directionToVector(d) ==
  CASE d = "UP" -> [x |-> 0, y |-> -1]
    [] d = "RIGHT" -> [x |-> 1, y |-> 0]
    [] d = "DOWN" -> [x |-> 0, y |-> 1]
    [] d = "LEFT" -> [x |-> -1, y |-> 0]

vecMult(v, s) == [x |-> v.x * s, y |-> v.y * s]

\* The region the adapter is constructed with: per row, its closed spans.
\* Rows 0 and 1; cell (1, 1) and everything around the block is outside.
GravRegion ==
  [r \in 0 .. 1 |-> IF r = 0 THEN <<[a |-> 0, b |-> 1]>>
                             ELSE <<[a |-> 0, b |-> 0]>>]

\* Span2d.contains(x, y)
Contains(region, x, y) ==
  /\ y \in DOMAIN region
  /\ \E i \in DOMAIN region[y] : region[y][i].a <= x /\ x <= region[y][i].b

\* body.bounds of a block-sized body whose top-left corner is (b.x, b.y)
Bounds(b) ==
  [min |-> [x |-> b.x, y |-> b.y],
   max |-> [x |-> b.x + BLOCK_SZ_WLD, y |-> b.y + BLOCK_SZ_WLD]]

isInside(rectX, rectY, rectW, rectH, ptX, ptY) ==
  /\ rectX <= ptX /\ ptX <= rectX + rectW
  /\ rectY <= ptY /\ ptY <= rectY + rectH

\* isGroundContact(body, contact), on the body's bounds and contact.vertex
isGroundContact(bounds, v) ==
  LET xMin == bounds.min.x
      xMax == bounds.max.x
      yMax == bounds.max.y
      w == xMax - xMin
      hotSpotW == w \div 2
      hotSpotH == 8
      hotSpotX == xMin + (w - hotSpotW) \div 2
      hotSpotY == yMax - hotSpotH \div 2
  IN isInside(hotSpotX, hotSpotY, hotSpotW, hotSpotH, v.x, v.y)

\* Where the engine can report the vertex of a contact of a body: below the
\* middle of its bottom edge, or at its bottom-left corner.
VertexPoints(b) ==
  {[x |-> b.x + BLOCK_SZ_WLD \div 2, y |-> b.y + BLOCK_SZ_WLD],
   [x |-> b.x, y |-> b.y + BLOCK_SZ_WLD]}

(***************************************************************************)
(* Records of the last operation.                                          *)
(***************************************************************************)
NoCell == <<0, 0>>
EmptyMap == [k \in {} |-> 0]

Call(op, id, dir) ==
  [op |-> op, id |-> id, dir |-> dir, offered |-> FALSE, fired |-> FALSE,
   grounded |-> FALSE, cell |-> NoCell, target |-> NoCell, pair |-> <<>>,
   contacts |-> <<>>, vertices |-> EmptyMap, at |-> NoCell, r |-> 0,
   found |-> {}]

EntityCollision(a, b) ==
  [type |-> "ENTITY_COLLISION", entities |-> <<a, b>>, dir |-> "NONE"]
EntityMoved(e, d) == [type |-> "ENTITY_MOVED", entities |-> <<e>>, dir |-> d]

(***************************************************************************)
(* FreeModeImpl: construction, addComponent, removeComponent.              *)
(***************************************************************************)
\* The state after the constructor: the fence is in the world, nothing is
\* tracked.  Every body exists with its component, at the origin, falling.
InitFree ==
  /\ componentsByEntityId = EmptyMap
  /\ componentsByBodyId = EmptyMap
  /\ grounded = EmptyMap
  /\ collisions = {}
  /\ body = [e \in Entities |-> [x |-> 0, y |-> 0, vx |-> 2, vy |-> 3]]
  /\ world = {FenceBody}
  /\ pairs = EmptyMap
  /\ evActive = EmptyMap
  /\ evEnd = {}
  /\ standing = {}
  /\ notified = {}
  /\ pc = "idle"
  /\ call = Call("new", 0, "NONE")
  /\ ret = "void"
  /\ posted = <<>>

\* addComponent(c, x, y): both tables, c.setStaticPos(x, y), World.add.
\* Callers add a component that is not tracked.
AddComponent(e, x, y) ==
  /\ pc = "idle"
  /\ e \notin DOMAIN componentsByEntityId
  /\ componentsByEntityId' = Put(componentsByEntityId, e, BodyOf(e))
  /\ componentsByBodyId' = Put(componentsByBodyId, BodyOf(e), e)
  /\ body' = [body EXCEPT ![e].x = x, ![e].y = y]
  /\ world' = world \cup {BodyOf(e)}
  /\ call' = Call("addComponent", e, "NONE")
  /\ ret' = "true"
  /\ posted' = <<>>
  /\ UNCHANGED nonFreeVars
  /\ UNCHANGED <<grounded, collisions, pairs, evActive, evEnd, standing,
                 notified, pc>>

\* A removeComponent that leaves the grounded map as it is
removeComponent_keepsGrounded(e) ==
  /\ world' = world \ {BodyOf(e)}
  /\ componentsByEntityId' = Drop(componentsByEntityId, e)
  /\ componentsByBodyId' = Drop(componentsByBodyId, BodyOf(e))
  /\ grounded' = grounded

\* A removeComponent that deletes from the by-body table under the entity id
removeComponent_entityKey(e) ==
  /\ world' = world \ {BodyOf(e)}
  /\ componentsByEntityId' = Drop(componentsByEntityId, e)
  /\ componentsByBodyId' = Drop(componentsByBodyId, e)
  /\ grounded' = Drop(grounded, e)

\* A removeComponent that deletes from the grounded map under the body id
removeComponent_bodyKey(e) ==
  /\ world' = world \ {BodyOf(e)}
  /\ componentsByEntityId' = Drop(componentsByEntityId, e)
  /\ componentsByBodyId' = Drop(componentsByBodyId, BodyOf(e))
  /\ grounded' = Drop(grounded, BodyOf(e))

\* The body of removeComponent(c), for the component of entity e.
removeComponent(e) ==
  /\ world' = world \ {BodyOf(e)}
  /\ componentsByEntityId' = Drop(componentsByEntityId, e)
  /\ componentsByBodyId' = Drop(componentsByBodyId, BodyOf(e))
  /\ grounded' = Drop(grounded, e)

RemoveComponent(e) ==
  /\ pc = "idle"
  /\ e \in DOMAIN componentsByEntityId
  /\ removeComponent(e)
  /\ call' = Call("removeComponent", e, "NONE")
  /\ ret' = "void"
  /\ posted' = <<>>
  /\ UNCHANGED nonFreeVars
  /\ UNCHANGED <<collisions, body, pairs, evActive, evEnd, standing,
                 notified, pc>>

\* A getComponent that hands back what Map.get returned
getComponent_unchecked(id) ==
  IF id \in DOMAIN componentsByEntityId THEN "component" ELSE "undefined"

\* The body of getComponent on the table as it is at some moment: the
\* component is returned, or a GameError thrown
getComponentIn(components, id) ==
  IF id \in DOMAIN components THEN "component" ELSE "GameError"

\* What getComponent(id) does
getComponent(id) == getComponentIn(componentsByEntityId, id)

GetComponent(e) ==
  /\ pc = "idle"
  /\ call' = Call("getComponent", e, "NONE")
  /\ ret' = getComponent(e)
  /\ posted' = <<>>
  /\ UNCHANGED nonFreeVars
  /\ UNCHANGED <<componentsByEntityId, componentsByBodyId, grounded,
                 collisions, body, world, pairs, evActive, evEnd, standing,
                 notified, pc>>


(***************************************************************************)
(* FreeModeImpl.moveAgent.                                                 *)
(***************************************************************************)
\* A _bodyGrounded that finds every entity grounded
_bodyGrounded_always(entityId) == entityId = entityId

_bodyGrounded(entityId) == entityId \in DOMAIN grounded

\* The cell _tryLeaveGravRegion probes for a body b and a direction.
ProbeCell(b, direction) ==
  LET v == vecMult(directionToVector(direction), BLOCK_SZ_WLD)
      u == directionToVector(direction)
      probeLen == BLOCK_SZ_WLD \div 4
      probe == [x |-> v.x \div 2 + u.x * probeLen,
                y |-> v.y \div 2 + u.y * probeLen]
      centreX == b.x + BLOCK_SZ_WLD \div 2
      centreY == b.y + BLOCK_SZ_WLD \div 2
  IN <<(centreX + probe.x) \div BLOCK_SZ_WLD,
       (centreY + probe.y) \div BLOCK_SZ_WLD>>

\* Offering the transition for the cells the region contains
OffersTransition_inside(cell) == Contains(GravRegion, cell[1], cell[2])

\* _tryLeaveGravRegion offers the transition for this probed cell
OffersTransition(cell) == ~Contains(GravRegion, cell[1], cell[2])

\* Handing over the body's position moved by one block, not snapped
TransitionTarget_unsnapped(b, direction) ==
  <<b.x + directionToVector(direction).x * BLOCK_SZ_WLD,
    b.y + directionToVector(direction).y * BLOCK_SZ_WLD>>

\* The position handed to attemptModeTransitionFn for a body and direction
TransitionTarget(b, direction) ==
  LET cell == ProbeCell(b, direction)
  IN <<cell[1] * BLOCK_SZ_WLD, cell[2] * BLOCK_SZ_WLD>>

\* What attemptModeTransitionFn can answer: the spatial system may refuse
\* the move into the cell, or make it.
AttemptModeTransitionFn(e, target, direction) == BOOLEAN

\* Setting the velocity to the direction's vector, zero on the other axis
MoveVelocity_bothAxes(b, direction) ==
  [x |-> directionToVector(direction).x * PLAYER_VELOCITY_H,
   y |-> directionToVector(direction).y * PLAYER_VELOCITY_V]

\* The velocity moveAgent sets when no transition fired
MoveVelocity(b, direction) ==
  LET dir == directionToVector(direction)
      vec == [x |-> dir.x * PLAYER_VELOCITY_H, y |-> dir.y * PLAYER_VELOCITY_V]
  IN [x |-> IF vec.x # 0 THEN vec.x ELSE b.vx,
      y |-> IF vec.y # 0 THEN vec.y ELSE b.vy]

\* A moveAgent without the early return for DOWN
moveAgent_downSetsVelocity(b, direction, isGrounded, fired) ==
  IF fired
  THEN [ret |-> "true", vx |-> b.vx, vy |-> b.vy, posts |-> TRUE]
  ELSE IF direction = "UP" /\ ~isGrounded
  THEN [ret |-> "false", vx |-> b.vx, vy |-> b.vy, posts |-> FALSE]
  ELSE [ret |-> "true", vx |-> MoveVelocity(b, direction).x,
        vy |-> MoveVelocity(b, direction).y, posts |-> TRUE]

\* A moveAgent that checks the grounded record before the transition
moveAgent_groundedFirst(b, direction, isGrounded, fired) ==
  IF direction = "UP" /\ ~isGrounded
  THEN [ret |-> "false", vx |-> b.vx, vy |-> b.vy, posts |-> FALSE]
  ELSE IF fired
  THEN [ret |-> "true", vx |-> b.vx, vy |-> b.vy, posts |-> TRUE]
  ELSE IF direction = "DOWN"
  THEN [ret |-> "true", vx |-> b.vx, vy |-> b.vy, posts |-> FALSE]
  ELSE [ret |-> "true", vx |-> MoveVelocity(b, direction).x,
        vy |-> MoveVelocity(b, direction).y, posts |-> TRUE]

\* A moveAgent that posts the move event before the early return for DOWN
moveAgent_postsOnDown(b, direction, isGrounded, fired) ==
  IF fired
  THEN [ret |-> "true", vx |-> b.vx, vy |-> b.vy, posts |-> TRUE]
  ELSE IF direction = "UP" /\ ~isGrounded
  THEN [ret |-> "false", vx |-> b.vx, vy |-> b.vy, posts |-> FALSE]
  ELSE IF direction = "DOWN"
  THEN [ret |-> "true", vx |-> b.vx, vy |-> b.vy, posts |-> TRUE]
  ELSE [ret |-> "true", vx |-> MoveVelocity(b, direction).x,
        vy |-> MoveVelocity(b, direction).y, posts |-> TRUE]

\* The control flow of moveAgent for body b, given whether the entity is
\* grounded and whether _tryLeaveGravRegion returned true: the value
\* returned, the velocity of the body afterwards, and whether
\* c._postMoveEvent is reached.
moveAgent(b, direction, isGrounded, fired) ==
  IF fired
  THEN [ret |-> "true", vx |-> b.vx, vy |-> b.vy, posts |-> TRUE]
  ELSE IF direction = "UP" /\ ~isGrounded
  THEN [ret |-> "false", vx |-> b.vx, vy |-> b.vy, posts |-> FALSE]
  ELSE IF direction = "DOWN"
  THEN [ret |-> "true", vx |-> b.vx, vy |-> b.vy, posts |-> FALSE]
  ELSE [ret |-> "true", vx |-> MoveVelocity(b, direction).x,
        vy |-> MoveVelocity(b, direction).y, posts |-> TRUE]

\* moveAgent(id, direction) for a tracked entity.  When the transition
\* fires, the spatial system has made the entity a grid-mode entity: it has
\* removed the component from this adapter.
MoveAgent(e, direction) ==
  /\ pc = "idle"
  /\ e \in DOMAIN componentsByEntityId
  /\ LET cell == ProbeCell(body[e], direction)
         offered == OffersTransition(cell)
         target == TransitionTarget(body[e], direction)
     IN \E fired \in IF offered
                      THEN AttemptModeTransitionFn(e, target, direction)
                      ELSE {FALSE} :
          LET out == moveAgent(body[e], direction, _bodyGrounded(e), fired)
          IN /\ call' = [Call("moveAgent", e, direction) EXCEPT
                           !.offered = offered, !.fired = fired,
                           !.grounded = _bodyGrounded(e), !.cell = cell,
                           !.target = IF offered THEN target ELSE NoCell]
             /\ ret' = out.ret
             /\ posted' = IF out.posts THEN <<EntityMoved(e, direction)>>
                          ELSE <<>>
             /\ body' = [body EXCEPT ![e].vx = out.vx, ![e].vy = out.vy]
             /\ IF fired
                THEN removeComponent(e)
                ELSE UNCHANGED <<world, componentsByEntityId,
                                 componentsByBodyId, grounded>>
  /\ UNCHANGED nonFreeVars
  /\ UNCHANGED <<collisions, pairs, evActive, evEnd, standing, notified,
                 pc>>

\* moveAgent(id, direction) for an id that has no component: the call of
\* getComponent in its first line throws, and the error leaves moveAgent.
MoveAgentUnknown(e, direction) ==
  /\ pc = "idle"
  /\ getComponent(e) # "component"
  /\ call' = Call("moveAgent", e, direction)
  /\ ret' = getComponent(e)
  /\ posted' = <<>>
  /\ UNCHANGED nonFreeVars
  /\ UNCHANGED <<componentsByEntityId, componentsByBodyId, grounded,
                 collisions, body, world, pairs, evActive, evEnd, standing,
                 notified, pc>>

(***************************************************************************)
(* The engine: one Engine.update, up to the point where it triggers the    *)
(* collision events.                                                       *)
(***************************************************************************)
\* Integration: the body of a tracked entity moves to a neighbouring
\* position, or one component of its velocity changes.  Detection follows
\* integration: it sees the bodies where they are after it.
Integrated(b) ==
  {[b EXCEPT !.x = nx] : nx \in {b.x - PosStep, b.x + PosStep} \cap Positions}
  \cup {[b EXCEPT !.y = ny] :
          ny \in {b.y - PosStep, b.y + PosStep} \cap Positions}
  \cup {[b EXCEPT !.vx = v] : v \in VelXs}
  \cup {[b EXCEPT !.vy = v] : v \in VelYs}

\* The fence near the bodies is the one below them: its top edge is the
\* bottom edge of a body at the lowest position.
FloorY == MaxPos * PosStep + BLOCK_SZ_WLD

\* The bounds of bodies a and b touch, the bodies being where bs says.
Touching(bs, a, b) ==
  LET bb == Bounds(bs[b - NumEntities])
  IN IF a = FenceBody THEN bb.max.y >= FloorY
     ELSE LET ba == Bounds(bs[a - NumEntities])
          IN /\ ba.min.x <= bb.max.x /\ bb.min.x <= ba.max.x
             /\ ba.min.y <= bb.max.y /\ bb.min.y <= ba.max.y

\* The pairs of bodies in the world whose bounds touch can collide.
CanCollide(bs) ==
  {p \in PairIds :
     p[1] \in world /\ p[2] \in world /\ Touching(bs, p[1], p[2])}

\* The tracked entities among the bodies of pair p
PairEntities(p) ==
  {componentsByBodyId[b] : b \in {p[1], p[2]} \cap DOMAIN componentsByBodyId}

\* Detection (Pairs.update, Pair.update, Pairs.removeOld): the pairs in
\* `collided` collide with the active contacts `ac`; the idle pairs in
\* `dropped` leave the table.  A collision has one or two supports, the
\* active contacts of its pair.  A pair that was active and still collides
\* goes to the collisionActive event, one that was active and collides no
\* longer goes to the collisionEnd event.
Detect(collided, ac, dropped) ==
  LET table == (DOMAIN pairs \cup collided) \ dropped
      wasActive(p) == p \in DOMAIN pairs /\ pairs[p].isActive
      old(p) == IF p \in DOMAIN pairs THEN pairs[p].contacts ELSE {}
  IN /\ Cardinality(table) <= MaxPairs
     /\ pairs' = [p \in table |->
                    IF p \in collided
                    THEN [isActive |-> TRUE, contacts |-> old(p) \cup ac[p]]
                    ELSE [isActive |-> FALSE, contacts |-> old(p)]]
     /\ evActive' = [p \in {q \in collided : wasActive(q)} |-> ac[p]]
     /\ evEnd' = {p \in DOMAIN pairs : wasActive(p) /\ p \notin collided}

\* Engine.update triggers collisionActive and then collisionEnd, each only
\* when its list of pairs is not empty, and returns.
AfterDetection(active, ended) ==
  IF active # {} THEN "collisionActive"
  ELSE IF ended # {} THEN "collisionEnd" ELSE "return"

EngineUpdate(moving) ==
  /\ pc = "idle"
  /\ \/ UNCHANGED body
     \/ \E e \in moving \cap DOMAIN componentsByEntityId :
          \E nb \in Integrated(body[e]) : body' = [body EXCEPT ![e] = nb]
  /\ \E collided \in {c \in SUBSET CanCollide(body') :
                      Cardinality(c) <= MaxPairs} :
       \E dropped \in SUBSET {p \in DOMAIN pairs \ collided :
                                ~pairs[p].isActive} :
         \E shown \in SUBSET {pc2 \in collided \X ContactIds :
                                pc2[2] \in PairVertices(pc2[1])} :
           LET ac == [p \in collided |->
                        {c \in ContactIds : <<p, c>> \in shown}]
           IN /\ \A p \in collided : ac[p] # {} /\ Cardinality(ac[p]) <= 2
              /\ Detect(collided, ac, dropped)
  /\ pc' = IF DOMAIN evActive' = {} /\ evEnd' = {} THEN "idle"
           ELSE AfterDetection(DOMAIN evActive', evEnd')
  /\ standing' = {}
  /\ call' = Call("update", 0, "NONE")
  /\ ret' = "void"
  /\ posted' = <<>>
  /\ UNCHANGED nonFreeVars
  /\ UNCHANGED <<componentsByEntityId, componentsByBodyId, grounded,
                 collisions, world, notified>>

(***************************************************************************)
(* FreeModeImpl.entitiesWithinRadius.                                      *)
(***************************************************************************)
\* The bounds of the fence below the bodies: half a block thick
FenceBounds ==
  [min |-> [x |-> -BLOCK_SZ_WLD, y |-> FloorY],
   max |-> [x |-> MaxPos * PosStep + 2 * BLOCK_SZ_WLD,
            y |-> FloorY + BLOCK_SZ_WLD \div 2]]

\* body.bounds of a body of the world
BodyBounds(b) ==
  IF b = FenceBody THEN FenceBounds ELSE Bounds(body[b - NumEntities])

\* An overlap test that looks at the horizontal extent only
Overlaps_xOnly(boundsA, boundsB) ==
  boundsA.min.x <= boundsB.max.x /\ boundsA.max.x >= boundsB.min.x

\* Bounds.overlaps(boundsA, boundsB) of the engine
Overlaps(boundsA, boundsB) ==
  /\ boundsA.min.x <= boundsB.max.x /\ boundsA.max.x >= boundsB.min.x
  /\ boundsA.max.y >= boundsB.min.y /\ boundsA.min.y <= boundsB.max.y

\* Query.region(bodies, bounds) of the engine
QueryRegion(bodies, bounds) ==
  {b \in bodies : Overlaps(BodyBounds(b), bounds)}

\* entitiesWithinRadius(x, y, r): the Set it returns
entitiesWithinRadius(x, y, r) ==
  LET bodies == QueryRegion(world, [min |-> [x |-> x - r, y |-> y - r],
                                    max |-> [x |-> x + r, y |-> y + r]])
  IN {componentsByBodyId[b] : b \in bodies \cap DOMAIN componentsByBodyId}

EntitiesWithinRadius(x, y, r) ==
  /\ pc = "idle"
  /\ call' = [Call("entitiesWithinRadius", 0, "NONE") EXCEPT
                !.at = <<x, y>>, !.r = r,
                !.found = entitiesWithinRadius(x, y, r)]
  /\ ret' = "set"
  /\ posted' = <<>>
  /\ UNCHANGED nonFreeVars
  /\ UNCHANGED <<componentsByEntityId, componentsByBodyId, grounded,
                 collisions, body, world, pairs, evActive, evEnd, standing,
                 notified, pc>>

(***************************************************************************)
(* The collision handlers registered by the constructor.                   *)
(***************************************************************************)
Tracked(b) == b \in DOMAIN componentsByBodyId

\* isGroundContact for the body of the component found for body id b
GroundFor(b, v) ==
  Tracked(b) /\ isGroundContact(Bounds(body[componentsByBodyId[b]]), v)

\* An inner forEach that keeps the id recorded first
RECURSIVE groundContacts_keepFirst(_, _, _, _)
groundContacts_keepFirst(g, p, cs, vx) ==
  IF cs = <<>> THEN g
  ELSE LET contact == Head(cs)
           a == componentsByBodyId[p[1]]
           b == componentsByBodyId[p[2]]
           g1 == IF GroundFor(p[1], vx[contact]) /\ a \notin DOMAIN g
                 THEN Put(g, a, contact) ELSE g
           g2 == IF GroundFor(p[2], vx[contact]) /\ b \notin DOMAIN g1
                 THEN Put(g1, b, contact) ELSE g1
       IN groundContacts_keepFirst(g2, p, Tail(cs), vx)

\* The inner forEach of the collisionActive handler: the contacts cs of
\* pair p, in order, on the grounded map g; vx gives contact.vertex.
RECURSIVE groundContacts(_, _, _, _)
groundContacts(g, p, cs, vx) ==
  IF cs = <<>> THEN g
  ELSE LET contact == Head(cs)
           g1 == IF GroundFor(p[1], vx[contact])
                 THEN Put(g, componentsByBodyId[p[1]], contact) ELSE g
           g2 == IF GroundFor(p[2], vx[contact])
                 THEN Put(g1, componentsByBodyId[p[2]], contact) ELSE g1
       IN groundContacts(g2, p, Tail(cs), vx)

\* Posting the event on every notification of a pair of tracked bodies
pairEvents_everyTime(p) ==
  IF Tracked(p[1]) /\ Tracked(p[2])
  THEN <<EntityCollision(componentsByBodyId[p[1]], componentsByBodyId[p[2]])>>
  ELSE <<>>

\* The events one pair of the collisionActive event posts
pairEvents(p) ==
  IF p \notin collisions /\ Tracked(p[1]) /\ Tracked(p[2])
  THEN <<EntityCollision(componentsByBodyId[p[1]], componentsByBodyId[p[2]])>>
  ELSE <<>>

\* The entities for which pair p shows a contact inside their hot spot
StandingIn(p, vx) ==
  {componentsByBodyId[b] :
     b \in {q \in {p[1], p[2]} : \E c \in evActive[p] : GroundFor(q, vx[c])}}

\* One pass of the outer forEach of the collisionActive handler: pair p of
\* the event, its active contacts in the order cs.  The engine fixes the
\* order of the pairs and of the contacts, and the vertex of each contact:
\* one of the points of a tracked body of the pair.
CollisionActive(p, cs) ==
  /\ pc = "collisionActive"
  /\ p \in DOMAIN evActive
  /\ cs \in Orders(evActive[p])
  /\ LET shown == IF PairEntities(p) = {} THEN {} ELSE evActive[p]
         points == UNION {VertexPoints(body[e]) : e \in PairEntities(p)}
     IN \E vx \in [shown -> points] :
          LET last == DOMAIN evActive = {p}
          IN /\ collisions' = collisions \cup {p}
             /\ posted' = pairEvents(p)
             /\ grounded' = groundContacts(grounded, p, cs, vx)
             /\ standing' = standing \cup StandingIn(p, vx)
             /\ call' = [Call("collisionActive", 0, "NONE") EXCEPT
                           !.pair = p, !.contacts = cs,
                           !.vertices = vx]
             /\ pc' = IF last THEN AfterDetection({}, evEnd)
                      ELSE "collisionActive"
  /\ evActive' = Drop(evActive, p)
  /\ notified' = notified \cup {p}
  /\ ret' = "void"
  /\ UNCHANGED nonFreeVars
  /\ UNCHANGED <<componentsByEntityId, componentsByBodyId, body, world,
                 pairs, evEnd>>

\* The entities the collisionEnd handler finds no longer grounded: a tracked
\* body of an ended pair whose recorded contact id is among pair.contacts.
\* The order of the pairs and contacts does not change the outcome.
Ungrounded(ended) ==
  {e \in DOMAIN grounded :
     \E p \in ended : /\ e \in PairEntities(p)
                      /\ grounded[e] \in pairs[p].contacts}

\* The collisionEnd handler, on the event the engine prepared
CollisionEnd ==
  /\ pc = "collisionEnd"
  /\ collisions' = collisions \ evEnd
  /\ grounded' = Restrict(grounded, DOMAIN grounded \ Ungrounded(evEnd))
  /\ pc' = "return"
  /\ evEnd' = {}
  /\ notified' = notified \ evEnd
  /\ call' = Call("collisionEnd", 0, "NONE")
  /\ ret' = "void"
  /\ posted' = <<>>
  /\ UNCHANGED nonFreeVars
  /\ UNCHANGED <<componentsByEntityId, componentsByBodyId, body, world,
                 pairs, evActive, standing>>

\* Engine.update returns to FreeModeImpl.update, and that to its caller.
UpdateReturns ==
  /\ pc = "return"
  /\ pc' = "idle"
  /\ standing' = {}
  /\ call' = Call("update", 0, "NONE")
  /\ ret' = "void"
  /\ posted' = <<>>
  /\ UNCHANGED nonFreeVars
  /\ UNCHANGED <<componentsByEntityId, componentsByBodyId, grounded,
                 collisions, body, world, pairs, evActive, evEnd, notified>>

(***************************************************************************)
(* The grid and grid-mode movement.                                        *)
(***************************************************************************)
\* The grid-mode properties the entity factories give
RockProps ==
  [solid |-> TRUE, blocking |-> TRUE, stackable |-> FALSE, heavy |-> TRUE,
   movable |-> TRUE, isAgent |-> FALSE]
GemProps ==
  [solid |-> TRUE, blocking |-> FALSE, stackable |-> FALSE, heavy |-> TRUE,
   movable |-> FALSE, isAgent |-> FALSE]
PlayerProps ==
  [solid |-> TRUE, blocking |-> FALSE, stackable |-> TRUE, heavy |-> FALSE,
   movable |-> FALSE, isAgent |-> TRUE]
GridModeProps == {RockProps, GemProps, PlayerProps}

Cells == (0 .. GridW - 1) \X (0 .. GridH - 1)

GridCall(op, id, target) == [op |-> op, id |-> id, target |-> target]

\* The grid is empty when the spatial system is constructed.
InitGrid ==
  /\ gridCells = [c \in Cells |-> {}]
  /\ gridPos = EmptyMap
  /\ gridProps = EmptyMap
  /\ gridCall = GridCall("new", 0, NoCell)
  /\ gridRet = "void"

\* A validation that looks at the stackable property only
SpaceFree_stackableOnly(props, others) ==
  \/ props.stackable
  \/ \A o \in others : gridProps[o].stackable

\* An entity built with properties props may enter a cell that holds the
\* entities others: none of them is blocking, and entities share a cell
\* only if the newcomer or all the others are stackable.
SpaceFree(props, others) ==
  /\ \A o \in others : ~gridProps[o].blocking
  /\ \/ props.stackable
     \/ \A o \in others : gridProps[o].stackable

\* A placement: entity e, built with props, is put on the grid at cell c.
\* It is validated as a move is; a rejected placement changes nothing.
GridPlace(e, props, c) ==
  /\ e \notin DOMAIN gridPos
  /\ gridCall' = GridCall("place", e, c)
  /\ IF SpaceFree(props, gridCells[c])
     THEN /\ gridCells' = [gridCells EXCEPT ![c] = @ \cup {e}]
          /\ gridPos' = Put(gridPos, e, c)
          /\ gridProps' = Put(gridProps, e, props)
          /\ gridRet' = "true"
     ELSE /\ UNCHANGED <<gridCells, gridPos, gridProps>>
          /\ gridRet' = "false"
  /\ UNCHANGED nonGridVars

\* The entity leaves the grid.
GridRemove(e) ==
  /\ e \in DOMAIN gridPos
  /\ gridCells' = [gridCells EXCEPT ![gridPos[e]] = @ \ {e}]
  /\ gridPos' = Drop(gridPos, e)
  /\ gridProps' = Drop(gridProps, e)
  /\ gridCall' = GridCall("remove", e, NoCell)
  /\ gridRet' = "void"
  /\ UNCHANGED nonGridVars

\* The cell next to cell c in a direction
CellTowards(c, direction) ==
  <<c[1] + directionToVector(direction).x,
    c[2] + directionToVector(direction).y>>

\* A move of e into cell target passes the validation
GridMoveValid(e, target) ==
  /\ target \in Cells
  /\ SpaceFree(gridProps[e], gridCells[target])

\* moveAgent(id, direction) in grid mode: the move is validated against the
\* occupancy of the target cell and then committed, which moves the entity
\* in the occupancy index; a rejected move returns false.
GridMoveAgent(e, direction) ==
  /\ e \in DOMAIN gridPos
  /\ LET from == gridPos[e]
         target == CellTowards(from, direction)
     IN /\ gridCall' = GridCall("moveAgent", e, target)
        /\ IF GridMoveValid(e, target)
           THEN /\ gridCells' = [gridCells EXCEPT ![from] = @ \ {e},
                                                  ![target] = @ \cup {e}]
                /\ gridPos' = [gridPos EXCEPT ![e] = target]
                /\ gridRet' = "true"
           ELSE /\ UNCHANGED <<gridCells, gridPos>>
                /\ gridRet' = "false"
  /\ UNCHANGED <<gridProps, nonGridVars>>

(***************************************************************************)
(* AgentSystem (back/src/agent_system.ts).                                 *)
(***************************************************************************)
\* new AgentComponent(entityId, ...): the dirty field starts true
AgentComponent(id) == [id |-> id, dirty |-> TRUE]

\* The keys of the Map
AgentIds(cs) == {cs[i].id : i \in DOMAIN cs}

\* Map.set: a new key goes last, a known key keeps its place
MapSet(cs, c) ==
  IF c.id \in AgentIds(cs)
  THEN [i \in DOMAIN cs |-> IF cs[i].id = c.id THEN c ELSE cs[i]]
  ELSE Append(cs, c)

\* Map.delete
MapDelete(cs, id) == SelectSeq(cs, LAMBDA c : c.id # id)

\* What the operations of the synchronized components return: nothing, a
\* number, a flag, a list of entity ids, or a thrown GameError
SyncRet(kind) ==
  [kind |-> kind, num |-> 0, flag |-> FALSE, ids |-> <<>>,
   teleport |-> FALSE]
SyncCall(op, id) == [op |-> op, id |-> id, teleport |-> FALSE]

\* A harvest that leaves the flags as they are
RECURSIVE getDirties_keepsFlags(_, _, _)
getDirties_keepsFlags(cs, i, acc) ==
  IF i > Len(cs) THEN acc
  ELSE IF cs[i].dirty
  THEN getDirties_keepsFlags(cs, i + 1,
         [acc EXCEPT !.dirties = Append(@, cs[i].id)])
  ELSE getDirties_keepsFlags(cs, i + 1, acc)

\* getDirties, from entry i of the Map on: acc.dirties is the list built so
\* far, acc.components the Map with the flags cleared so far.  A value of
\* the Map is a component, so the throw inside the loop is never reached.
RECURSIVE getDirties(_, _, _)
getDirties(cs, i, acc) ==
  IF i > Len(cs) THEN acc
  ELSE IF cs[i].dirty
  THEN getDirties(cs, i + 1,
         [dirties |-> Append(acc.dirties, cs[i].id),
          components |-> [acc.components EXCEPT ![i].dirty = FALSE]])
  ELSE getDirties(cs, i + 1, acc)

\* addComponent(component), with a newly constructed component of entity e
AgentAddComponent(e) ==
  /\ agentComponents' = MapSet(agentComponents, AgentComponent(e))
  /\ agentMutated' = agentMutated \cup {e}
  /\ syncCall' = SyncCall("AgentSystem.addComponent", e)
  /\ syncRet' = SyncRet("void")
  /\ UNCHANGED <<cSpatial, spatialMutated, nonSyncVars>>

\* removeComponent(id)
AgentRemoveComponent(e) ==
  /\ agentComponents' = MapDelete(agentComponents, e)
  /\ agentMutated' = agentMutated \ {e}
  /\ syncCall' = SyncCall("AgentSystem.removeComponent", e)
  /\ syncRet' = SyncRet("void")
  /\ UNCHANGED <<cSpatial, spatialMutated, nonSyncVars>>

\* A change of the component of entity e by its owner, which sets its
\* public dirty field.
AgentSetDirty(e) ==
  /\ e \in AgentIds(agentComponents)
  /\ agentComponents' =
       MapSet(agentComponents, [id |-> e, dirty |-> TRUE])
  /\ agentMutated' = agentMutated \cup {e}
  /\ syncCall' = SyncCall("AgentComponent.dirty", e)
  /\ syncRet' = SyncRet("void")
  /\ UNCHANGED <<cSpatial, spatialMutated, nonSyncVars>>

\* getDirties()
GetDirties ==
  LET out == getDirties(agentComponents, 1,
                        [dirties |-> <<>>, components |-> agentComponents])
  IN /\ agentComponents' = out.components
     /\ agentMutated' = {}
     /\ syncCall' = SyncCall("AgentSystem.getDirties", 0)
     /\ syncRet' = [SyncRet("list") EXCEPT !.ids = out.dirties]
     /\ UNCHANGED <<cSpatial, spatialMutated, nonSyncVars>>

\* AgentSystem.getComponent(id)
AgentGetComponent(e) ==
  /\ syncCall' = SyncCall("AgentSystem.getComponent", e)
  /\ syncRet' = IF e \in AgentIds(agentComponents) THEN SyncRet("component")
                ELSE SyncRet("GameError")
  /\ UNCHANGED <<agentComponents, agentMutated, cSpatial, spatialMutated,
                 nonSyncVars>>

\* The ids that name a property of the Map object _components.  Map.set
\* keeps an entry in the data of the map and gives the object no property,
\* and the properties a Map inherits have names that are no number.
MapProperties(cs) == {}

\* AgentSystem.hasComponent(id): id in this._components
AgentHasComponent(e) ==
  /\ syncCall' = SyncCall("AgentSystem.hasComponent", e)
  /\ syncRet' = [SyncRet("boolean") EXCEPT
                   !.flag = e \in MapProperties(agentComponents)]
  /\ UNCHANGED <<agentComponents, agentMutated, cSpatial, spatialMutated,
                 nonSyncVars>>

(***************************************************************************)
(* RenderSystem (front/src/terrestria/render_system.ts): its components.   *)
(***************************************************************************)
InitRender ==
  /\ renderComponents = {}
  /\ renderCall = [op |-> "new", id |-> 0]
  /\ renderRet = "void"

\* addComponent(component)
RenderAddComponent(e) ==
  /\ renderComponents' = renderComponents \cup {e}
  /\ renderCall' = [op |-> "addComponent", id |-> e]
  /\ renderRet' = "void"
  /\ UNCHANGED nonRenderVars

\* removeComponent(id)
RenderRemoveComponent(e) ==
  /\ renderComponents' = renderComponents \ {e}
  /\ renderCall' = [op |-> "removeComponent", id |-> e]
  /\ renderRet' = "void"
  /\ UNCHANGED nonRenderVars

\* getComponent(id)
RenderGetComponent(e) ==
  /\ renderCall' = [op |-> "getComponent", id |-> e]
  /\ renderRet' = IF e \in renderComponents THEN "component"
                  ELSE "GameError"
  /\ UNCHANGED <<renderComponents, nonRenderVars>>

(***************************************************************************)
(* CSpatial (back/src/spatial_component.ts) and its two subcomponents.     *)
(***************************************************************************)
\* The positions a subcomponent is given
SpatialPoints == {<<i, i + 1>> : i \in 0 .. MaxCoord}

\* The entity that owns the CSpatial
SpatialEntity == 1

OtherMode(m) == IF m = "GRID_MODE" THEN "FREE_MODE" ELSE "GRID_MODE"

\* A subcomponent when constructed: at the first position, to be sent
NewSubcomponent == [x |-> 0, y |-> 1, dirty |-> TRUE]

\* setInstantaneousPos and setStaticPos of a subcomponent: the position
\* changes and the subcomponent is dirty.
SubSetPos(s, p) == [s EXCEPT !.x = p[1], !.y = p[2], !.dirty = TRUE]

\* x(), y(), x_abs(), y_abs() of a subcomponent that has no parent
SubRead(s, attr) == IF attr \in {"x", "x_abs"} THEN s.x ELSE s.y

\* new CSpatial(...)
NewCSpatial ==
  [currentMode |-> "GRID_MODE", gridMode |-> NewSubcomponent,
   freeMode |-> NewSubcomponent, teleport |-> FALSE]

\* CSpatial.isDirty()
CSpatial_isDirty(c) ==
  IF c.currentMode = "GRID_MODE" THEN c.gridMode.dirty ELSE c.freeMode.dirty

\* CSpatial.setClean()
CSpatial_setClean(c) ==
  [c EXCEPT !.gridMode.dirty = FALSE, !.freeMode.dirty = FALSE]

\* Getters that read the grid-mode subcomponent in both modes
CSpatial_get_gridOnly(c, attr) == SubRead(c.gridMode, attr)

\* The getters x, y, x_abs, y_abs of CSpatial
CSpatial_get(c, attr) ==
  IF c.currentMode = "GRID_MODE" THEN SubRead(c.gridMode, attr)
  ELSE SubRead(c.freeMode, attr)

\* Position setters that move both subcomponents
CSpatial_setPos_both(c, p, teleport) ==
  [c EXCEPT !.gridMode = SubSetPos(@, p), !.freeMode = SubSetPos(@, p),
            !.teleport = c.teleport \/ teleport]

\* setInstantaneousPos(x, y, teleport) and setStaticPos(x, y, teleport) of
\* CSpatial: the same dispatch and the same last line
CSpatial_setPos(c, p, teleport) ==
  LET moved == IF c.currentMode = "GRID_MODE"
               THEN [c EXCEPT !.gridMode = SubSetPos(@, p)]
               ELSE IF c.currentMode = "FREE_MODE"
               THEN [c EXCEPT !.freeMode = SubSetPos(@, p)]
               ELSE c
  IN [moved EXCEPT !.teleport = c.teleport \/ teleport]

SetInstantaneousPos(p, teleport) ==
  /\ cSpatial' = CSpatial_setPos(cSpatial, p, teleport)
  /\ spatialMutated' = TRUE
  /\ syncCall' = [SyncCall("setInstantaneousPos", SpatialEntity) EXCEPT
                    !.teleport = teleport]
  /\ syncRet' = SyncRet("void")
  /\ UNCHANGED <<agentComponents, agentMutated, nonSyncVars>>

SetStaticPos(p, teleport) ==
  /\ cSpatial' = CSpatial_setPos(cSpatial, p, teleport)
  /\ spatialMutated' = TRUE
  /\ syncCall' = [SyncCall("setStaticPos", SpatialEntity) EXCEPT
                    !.teleport = teleport]
  /\ syncRet' = SyncRet("void")
  /\ UNCHANGED <<agentComponents, agentMutated, nonSyncVars>>

\* A read of one of x, y, x_abs, y_abs
GetSpatial(attr) ==
  /\ syncCall' = SyncCall(attr, SpatialEntity)
  /\ syncRet' = [SyncRet("num") EXCEPT !.num = CSpatial_get(cSpatial, attr)]
  /\ UNCHANGED <<agentComponents, agentMutated, cSpatial, spatialMutated,
                 nonSyncVars>>

\* A call of isDirty()
IsDirty ==
  /\ syncCall' = SyncCall("isDirty", SpatialEntity)
  /\ syncRet' = [SyncRet("flag") EXCEPT !.flag = CSpatial_isDirty(cSpatial)]
  /\ UNCHANGED <<agentComponents, agentMutated, cSpatial, spatialMutated,
                 nonSyncVars>>

\* A mode transition made by the spatial system: the other mode becomes
\* current and its adapter places the subcomponent (addComponent calls
\* setStaticPos).
ModeTransition(p) ==
  /\ cSpatial' =
       CSpatial_setPos([cSpatial EXCEPT !.currentMode = OtherMode(@)],
                       p, FALSE)
  /\ spatialMutated' = TRUE
  /\ syncCall' = SyncCall("transition", SpatialEntity)
  /\ syncRet' = SyncRet("void")
  /\ UNCHANGED <<agentComponents, agentMutated, nonSyncVars>>

\* A harvest of the CSpatial: isDirty(), and for a dirty component the
\* update that is sent, which carries the teleport field as it is, followed
\* by setClean().
SpatialHarvest ==
  /\ IF CSpatial_isDirty(cSpatial)
     THEN /\ syncRet' = [SyncRet("list") EXCEPT
                           !.ids = <<SpatialEntity>>,
                           !.teleport = cSpatial.teleport]
          /\ cSpatial' = CSpatial_setClean(cSpatial)
     ELSE /\ syncRet' = SyncRet("list")
          /\ UNCHANGED cSpatial
  /\ spatialMutated' = FALSE
  /\ syncCall' = SyncCall("harvest", SpatialEntity)
  /\ UNCHANGED <<agentComponents, agentMutated, nonSyncVars>>

InitSync ==
  /\ agentComponents = <<>>
  /\ agentMutated = {}
  /\ cSpatial = NewCSpatial
  /\ spatialMutated = TRUE
  /\ syncCall = SyncCall("new", 0)
  /\ syncRet = SyncRet("void")

(***************************************************************************)
(* ServerSpatialComponent (unnamed/part_002).                              *)
(***************************************************************************)
\* new ServerSpatialComponent(...)
NewServerSpatial ==
  [currentMode |-> "GRID_MODE", gridMode |-> NewSubcomponent,
   freeMode |-> NewSubcomponent]

\* ServerSpatialComponent.isDirty(): the grid-mode flag, in both modes
ServerSpatial_isDirty(c) == c.gridMode.dirty

\* ServerSpatialComponent.setClean()
ServerSpatial_setClean(c) ==
  [c EXCEPT !.gridMode.dirty = FALSE, !.freeMode.dirty = FALSE]

\* The getters x and y
ServerSpatial_get(c, attr) ==
  IF c.currentMode = "GRID_MODE" THEN SubRead(c.gridMode, attr)
  ELSE SubRead(c.freeMode, attr)

\* setInstantaneousPos(x, y) and setStaticPos(x, y): the same dispatch
ServerSpatial_setPos(c, p) ==
  IF c.currentMode = "GRID_MODE"
  THEN [c EXCEPT !.gridMode = SubSetPos(@, p)]
  ELSE IF c.currentMode = "FREE_MODE"
  THEN [c EXCEPT !.freeMode = SubSetPos(@, p)]
  ELSE c

ServerSetInstantaneousPos(p) ==
  /\ serverSpatial' = ServerSpatial_setPos(serverSpatial, p)
  /\ serverCall' = "setInstantaneousPos"
  /\ serverRet' = SyncRet("void")
  /\ UNCHANGED nonServerVars

ServerSetStaticPos(p) ==
  /\ serverSpatial' = ServerSpatial_setPos(serverSpatial, p)
  /\ serverCall' = "setStaticPos"
  /\ serverRet' = SyncRet("void")
  /\ UNCHANGED nonServerVars

ServerGet(attr) ==
  /\ serverCall' = attr
  /\ serverRet' =
       [SyncRet("num") EXCEPT !.num = ServerSpatial_get(serverSpatial, attr)]
  /\ UNCHANGED <<serverSpatial, nonServerVars>>

ServerIsDirty ==
  /\ serverCall' = "isDirty"
  /\ serverRet' =
       [SyncRet("flag") EXCEPT !.flag = ServerSpatial_isDirty(serverSpatial)]
  /\ UNCHANGED <<serverSpatial, nonServerVars>>

ServerSetClean ==
  /\ serverSpatial' = ServerSpatial_setClean(serverSpatial)
  /\ serverCall' = "setClean"
  /\ serverRet' = SyncRet("void")
  /\ UNCHANGED nonServerVars

\* A mode transition made by the spatial system: the other mode becomes
\* current and its adapter places the subcomponent.
ServerModeTransition(p) ==
  /\ serverSpatial' =
       ServerSpatial_setPos([serverSpatial EXCEPT
                               !.currentMode = OtherMode(@)], p)
  /\ serverCall' = "transition"
  /\ serverRet' = SyncRet("void")
  /\ UNCHANGED nonServerVars

InitServer ==
  /\ serverSpatial = NewServerSpatial
  /\ serverCall = "new"
  /\ serverRet = SyncRet("void")

(***************************************************************************)
(* FreeModeImpl._setupFences.                                              *)
(***************************************************************************)
Abs(n) == IF n < 0 THEN -n ELSE n
Min(a, b) == IF a < b THEN a ELSE b

\* The cells a region given by its spans contains
CellsOf(region) ==
  {c \in (0 .. RegionW - 1) \X (0 .. RegionH - 1) :
     Contains(region, c[1], c[2])}

\* The sides of a cell, walked clockwise on the screen (y grows downwards):
\* the cell (x, y) lies to the right of each edge from A to B.
CellSides(c) ==
  {[A |-> [x |-> c[1], y |-> c[2]], B |-> [x |-> c[1] + 1, y |-> c[2]]],
   [A |-> [x |-> c[1] + 1, y |-> c[2]],
    B |-> [x |-> c[1] + 1, y |-> c[2] + 1]],
   [A |-> [x |-> c[1] + 1, y |-> c[2] + 1],
    B |-> [x |-> c[1], y |-> c[2] + 1]],
   [A |-> [x |-> c[1], y |-> c[2] + 1], B |-> [x |-> c[1], y |-> c[2]]]}

\* The cell on the other side of a side of a cell
Across(edge) ==
  IF edge.A.y = edge.B.y
  THEN IF edge.B.x > edge.A.x THEN <<edge.A.x, edge.A.y - 1>>
       ELSE <<edge.B.x, edge.A.y>>
  ELSE IF edge.B.y > edge.A.y THEN <<edge.A.x, edge.A.y>>
       ELSE <<edge.A.x - 1, edge.B.y>>

\* getPerimeter(region): an edge wherever containment changes between two
\* adjacent cells
PerimeterEdges(cells) ==
  {e \in UNION {CellSides(c) : c \in cells} : Across(e) \notin cells}

RECURSIVE SetToSeq(_)
SetToSeq(S) ==
  IF S = {} THEN <<>>
  ELSE LET e == CHOOSE v \in S : TRUE IN <<e>> \o SetToSeq(S \ {e})

getPerimeter(cells) == SetToSeq(PerimeterEdges(cells))

\* orientation(edge)
orientation(edge) ==
  IF edge.A.x = edge.B.x THEN "VERTICAL" ELSE "HORIZONTAL"

\* A fence that is moved for the other direction of the edge
EdgeFence_inward(edge) ==
  LET fenceThickness == BLOCK_SZ_WLD \div 2
      w == Abs(edge.B.x - edge.A.x) * BLOCK_SZ_WLD
      h == Abs(edge.B.y - edge.A.y) * BLOCK_SZ_WLD
      x == Min(edge.A.x, edge.B.x) * BLOCK_SZ_WLD
      y == Min(edge.A.y, edge.B.y) * BLOCK_SZ_WLD
  IN IF orientation(edge) = "VERTICAL"
     THEN [x |-> IF edge.A.y < edge.B.y THEN x - fenceThickness ELSE x,
           y |-> y, w |-> fenceThickness, h |-> h]
     ELSE [x |-> x,
           y |-> IF edge.B.x < edge.A.x THEN y - fenceThickness ELSE y,
           w |-> w, h |-> fenceThickness]

\* One pass of the loop of _setupFences: the body built for an edge, as
\* the corner bounds.min it has after Body.translate, and its size.
\* Bodies.rectangle(x, y, w, h) is centred at (x, y); the translation by
\* position - bounds.min moves its corner there.
EdgeFence(edge) ==
  LET fenceThickness == BLOCK_SZ_WLD \div 2
      w == Abs(edge.B.x - edge.A.x) * BLOCK_SZ_WLD
      h == Abs(edge.B.y - edge.A.y) * BLOCK_SZ_WLD
      x == Min(edge.A.x, edge.B.x) * BLOCK_SZ_WLD
      y == Min(edge.A.y, edge.B.y) * BLOCK_SZ_WLD
  IN IF orientation(edge) = "VERTICAL"
     THEN [x |-> IF edge.A.y > edge.B.y THEN x - fenceThickness ELSE x,
           y |-> y, w |-> fenceThickness, h |-> h]
     ELSE [x |-> x,
           y |-> IF edge.B.x > edge.A.x THEN y - fenceThickness ELSE y,
           w |-> w, h |-> fenceThickness]

\* _setupFences(): the bodies added to the world, in the order of the edges
_setupFences(cells) ==
  LET perimeter == getPerimeter(cells)
  IN [i \in DOMAIN perimeter |-> EdgeFence(perimeter[i])]

\* The regions a FreeModeImpl is constructed with
Regions == SUBSET ((0 .. RegionW - 1) \X (0 .. RegionH - 1))

\* The constructor has stored the region and not yet called _setupFences
InitUnfenced ==
  /\ gravRegion \in Regions
  /\ fences = <<>>
  /\ fenced = FALSE

\* The call of _setupFences in the constructor
SetupFences ==
  /\ ~fenced
  /\ fences' = fences \o _setupFences(gravRegion)
  /\ fenced' = TRUE
  /\ UNCHANGED <<gravRegion, nonFenceVars>>

\* The adapter after its construction with the region GravRegion
InitFenced ==
  /\ gravRegion = CellsOf(GravRegion)
  /\ fences = _setupFences(gravRegion)
  /\ fenced = TRUE

(***************************************************************************)
(* App (back/src/app.ts): the connections and _wrap.                       *)
(***************************************************************************)
Sockets == 1 .. NumSockets

\* What fn() can end with: it returns, or one of these errors is thrown or
\* rejects its promise.  A GameError constructed without a code has the
\* code its class gives it; an error of the runtime has none.
NoError == [name |-> "none", code |-> "undefined", message |-> ""]
Errors ==
  {[name |-> "GameError", code |-> "BAD_MESSAGE",
    message |-> "Player not spawned yet"],
   [name |-> "GameError", code |-> "LOG_IN_FAILURE",
    message |-> "Couldn't log into pinata"],
   [name |-> "GameError", code |-> "DEFAULT",
    message |-> "No agent component for entity"],
   [name |-> "TypeError", code |-> "undefined",
    message |-> "Cannot read property"]}

NoResponse == [type |-> "NONE", code |-> "undefined", message |-> ""]

AppCall(op, sock, err) == [op |-> op, sock |-> sock, err |-> err]

\* ws.send(s) on a socket: on an open socket the data is sent; on one that
\* is not open the library throws or drops the data, by its version.
SendOutcomes(open) == IF open THEN {"sent"} ELSE {"throws", "dropped"}

\* A _wrap without the outer try block
_wrap_noOuterTry(open, err, sendOutcome) ==
  IF err = NoError
  THEN [logged |-> <<>>, response |-> <<>>, escapes |-> FALSE]
  ELSE LET response == [type |-> "ERROR", code |-> err.code,
                        message |-> err.message]
       IN IF sendOutcome = "sent"
          THEN [logged |-> <<response.message>>, response |-> <<response>>,
                escapes |-> FALSE]
          ELSE [logged |-> <<response.message>>, response |-> <<>>,
                escapes |-> sendOutcome = "throws"]

\* _wrap(ws, fn) from the point where fn() has ended, with err thrown or
\* NoError: what it logs with _logger.error, the response ws.send carried
\* and whether an error leaves it.
_wrap(open, err, sendOutcome) ==
  IF err = NoError
  THEN [logged |-> <<>>, response |-> <<>>, escapes |-> FALSE]
  ELSE LET response == [type |-> "ERROR", code |-> err.code,
                        message |-> err.message]
       IN IF sendOutcome = "sent"
          THEN [logged |-> <<response.message>>, response |-> <<response>>,
                escapes |-> FALSE]
          ELSE IF sendOutcome = "throws"
          THEN [logged |-> <<response.message, "Error! ">>,
                response |-> <<>>, escapes |-> FALSE]
          ELSE [logged |-> <<response.message>>, response |-> <<>>,
                escapes |-> FALSE]

InitApp ==
  /\ sockOpen = [s \in Sockets |-> FALSE]
  /\ inFlight = [s \in Sockets |-> 0]
  /\ sent = [s \in Sockets |-> NoResponse]
  /\ appLog = <<>>
  /\ escaped = FALSE
  /\ appCall = AppCall("new", 0, NoError)

\* _handleConnection(ws): a client connects
HandleConnection(s) ==
  /\ ~escaped
  /\ ~sockOpen[s] /\ inFlight[s] = 0
  /\ sockOpen' = [sockOpen EXCEPT ![s] = TRUE]
  /\ sent' = [t \in Sockets |-> NoResponse]
  /\ appLog' = <<>>
  /\ appCall' = AppCall("connection", s, NoError)
  /\ UNCHANGED <<inFlight, escaped, nonAppVars>>

\* The socket of a connection closes
SocketCloses(s) ==
  /\ ~escaped
  /\ sockOpen[s]
  /\ sockOpen' = [sockOpen EXCEPT ![s] = FALSE]
  /\ appLog' = <<>>
  /\ sent' = [t \in Sockets |-> NoResponse]
  /\ appCall' = AppCall("close", s, NoError)
  /\ UNCHANGED <<inFlight, escaped, nonAppVars>>

\* The rest of _wrap for connection s once fn() has ended with err
WrapEnds(s, err, sendOutcome) ==
  LET out == _wrap(sockOpen[s], err, sendOutcome)
  IN /\ appLog' = out.logged
     /\ sent' = [t \in Sockets |->
                  IF t = s /\ out.response # <<>> THEN out.response[1]
                  ELSE NoResponse]
     /\ escaped' = out.escapes

\* ws.on("message"): _wrap calls fn, which handles the message without
\* waiting: it returns or throws, and _wrap goes on at once.
ClientMessage(s, err) ==
  /\ ~escaped
  /\ sockOpen[s]
  /\ \E sendOutcome \in SendOutcomes(sockOpen[s]) :
       WrapEnds(s, err, sendOutcome)
  /\ appCall' = AppCall("message", s, err)
  /\ UNCHANGED <<sockOpen, inFlight, nonAppVars>>

\* ws.on("message"): _wrap calls fn, which awaits the answer to a request
\* it made; other messages are handled meanwhile.
ClientMessageAwaits(s) ==
  /\ ~escaped
  /\ sockOpen[s]
  /\ inFlight[s] < MaxInFlight
  /\ inFlight' = [inFlight EXCEPT ![s] = @ + 1]
  /\ appLog' = <<>>
  /\ sent' = [t \in Sockets |-> NoResponse]
  /\ appCall' = AppCall("await", s, NoError)
  /\ UNCHANGED <<sockOpen, escaped, nonAppVars>>

\* The awaited answer arrives: fn goes on and returns or throws, and _wrap
\* goes on after its await.
AwaitSettles(s, err) ==
  /\ ~escaped
  /\ inFlight[s] > 0
  /\ inFlight' = [inFlight EXCEPT ![s] = @ - 1]
  /\ \E sendOutcome \in SendOutcomes(sockOpen[s]) :
       WrapEnds(s, err, sendOutcome)
  /\ appCall' = AppCall("settle", s, err)
  /\ UNCHANGED <<sockOpen, nonAppVars>>

\* The bodies an HTTP error of the account service can carry: none, text
\* that is no JSON, JSON without an error field, JSON with error.code
HttpBodies == {"", "Bad Gateway", "{}", "{\"error\": {\"code\": 2}}"}

\* What pinata.signUp can end with: it returns, or it rejects with a
\* PinataHttpError that carries messageFromServer, or with another error
SignUpOutcomes ==
  {NoError, [name |-> "Error", code |-> "undefined", message |-> "timeout"]}
    \cup {[name |-> "PinataHttpError", code |-> "undefined", message |-> b] :
            b \in HttpBodies}

\* attemptJsonParse(json): the value JSON.parse gives, null if it throws
attemptJsonParse(json) ==
  CASE json = "{}" -> [value |-> "object", error |-> "undefined"]
    [] json = "{\"error\": {\"code\": 2}}" ->
         [value |-> "object", error |-> "2"]
    [] OTHER -> [value |-> "null", error |-> "undefined"]

\* _sendResponse(sock, response) in the handler of a message: what ws.send
\* carried and what it threw
SendResponse(response, sendOutcome) ==
  [response |-> IF sendOutcome = "sent" THEN <<response>> ELSE <<>>,
   err |-> IF sendOutcome = "throws"
           THEN [name |-> "Error", code |-> "undefined",
                 message |-> "WebSocket is not open"]
           ELSE NoError]

\* _handleSignUp(sock, data) from the point where pinata.signUp has ended
\* with outcome: the response it sent and the error that leaves it
_handleSignUp(outcome, sendOutcome) ==
  LET failure(code) ==
        SendResponse([type |-> "SIGN_UP_FAILURE", code |-> code,
                      message |-> ""], sendOutcome)
      success ==
        SendResponse([type |-> "SIGN_UP_SUCCESS", code |-> "undefined",
                      message |-> ""], sendOutcome)
  IN IF outcome = NoError
     THEN IF success.err = NoError THEN success
          ELSE failure("UNKNOWN_ERROR")
     ELSE IF outcome.name = "PinataHttpError"
     THEN LET msg == attemptJsonParse(outcome.message)
          IN IF msg.value = "null" \/ msg.error = "undefined"
             THEN [response |-> <<>>,
                   err |-> [name |-> "TypeError", code |-> "undefined",
                            message |-> "Cannot read property"]]
             ELSE failure(msg.error)
     ELSE failure("UNKNOWN_ERROR")

\* The answer of the account service to a SIGN_UP arrives: _handleSignUp
\* goes on after its await, and then _wrap
SignUpSettles(s, outcome) ==
  /\ ~escaped
  /\ inFlight[s] > 0
  /\ inFlight' = [inFlight EXCEPT ![s] = @ - 1]
  /\ \E sendOutcome \in SendOutcomes(sockOpen[s]) :
       LET h == _handleSignUp(outcome, sendOutcome)
           out == _wrap(sockOpen[s], h.err, sendOutcome)
       IN /\ appLog' = out.logged
          /\ sent' = [t \in Sockets |->
                       IF t = s /\ h.response # <<>> THEN h.response[1]
                       ELSE IF t = s /\ out.response # <<>>
                       THEN out.response[1]
                       ELSE NoResponse]
          /\ escaped' = out.escapes
  /\ appCall' = AppCall("signUp", s, outcome)
  /\ UNCHANGED <<sockOpen, nonAppVars>>

(***************************************************************************)
(* The client App (unnamed/part_005): its two queues and its tick.         *)
(***************************************************************************)
\* The responses that change what the client holds; NEW_ENTITIES after
\* MAP_DATA stands for the ones that leave these fields alone.
ResponseTypes ==
  {"MAP_DATA", "NEW_ENTITIES", "JOIN_GAME_SUCCESS", "PLAYER_KILLED",
   "GAME_OVER"}

\* One entry of the record of what a step did
Step(name, id) == [step |-> name, id |-> id]

ClientCall(op) == [op |-> op]

\* _mapData before the first MAP_DATA
NoMap == 0

\* The fields of the App that handling a message reads and writes
ClientState ==
  [playerId |-> playerId, mapData |-> mapData, ws |-> clientWs,
   actionQueue |-> actionQueue]

InitClient ==
  /\ responseQueue = <<>>
  /\ actionQueue = <<>>
  /\ clientWs = FALSE
  /\ playerId = "UNSET"
  /\ mapData = NoMap
  /\ arrived = 0
  /\ handled = <<>>
  /\ discarded = {}
  /\ tickTrace = <<>>
  /\ built = <<>>
  /\ clientCall = ClientCall("new")

\* connect(): a new WebSocket whose onmessage is _onServerMessage
ClientConnect ==
  /\ ~clientWs
  /\ clientWs' = TRUE
  /\ tickTrace' = <<>>
  /\ built' = <<>>
  /\ clientCall' = ClientCall("connect")
  /\ UNCHANGED <<responseQueue, actionQueue, playerId, mapData, arrived,
                 handled, discarded, nonClientVars>>

\* _onServerMessage(event): the message event of the socket
OnServerMessage(type) ==
  /\ clientWs
  /\ arrived < MaxMessages
  /\ arrived' = arrived + 1
  /\ responseQueue' =
       Append(responseQueue, [id |-> arrived + 1, type |-> type])
  /\ tickTrace' = <<>>
  /\ built' = <<>>
  /\ clientCall' = ClientCall("onmessage")
  /\ UNCHANGED <<actionQueue, clientWs, playerId, mapData, handled,
                 discarded, nonClientVars>>

\* _onDirectionKeyDown(input), input not null
OnDirectionKeyDown ==
  /\ Len(actionQueue) < MaxActions
  /\ actionQueue' =
       IF playerId = "UNSET" THEN actionQueue
       ELSE Append(actionQueue, [state |-> "PRESSED", playerId |-> playerId])
  /\ tickTrace' = <<>>
  /\ built' = <<>>
  /\ clientCall' = ClientCall("keydown")
  /\ UNCHANGED <<responseQueue, clientWs, playerId, mapData, arrived,
                 handled, discarded, nonClientVars>>

\* _onDirectionKeyUp(input), input not null
OnDirectionKeyUp ==
  /\ Len(actionQueue) < MaxActions
  /\ actionQueue' =
       Append(actionQueue, [state |-> "RELEASED", playerId |-> playerId])
  /\ tickTrace' = <<>>
  /\ built' = <<>>
  /\ clientCall' = ClientCall("keyup")
  /\ UNCHANGED <<responseQueue, clientWs, playerId, mapData, arrived,
                 handled, discarded, nonClientVars>>

\* A _handleServerMessage that constructs entities without a map
_handleServerMessage_noCheck(st, msg) ==
  CASE msg.type = "MAP_DATA" ->
         [st |-> [st EXCEPT !.actionQueue = <<>>, !.playerId = "UNSET",
                            !.mapData = msg.id],
          threw |-> FALSE, built |-> <<>>]
    [] msg.type = "NEW_ENTITIES" ->
         [st |-> st, threw |-> FALSE,
          built |-> <<[msg |-> msg.id, mapData |-> st.mapData]>>]
    [] msg.type = "JOIN_GAME_SUCCESS" ->
         [st |-> [st EXCEPT !.playerId = "ALIVE"], threw |-> FALSE,
          built |-> <<>>]
    [] msg.type = "PLAYER_KILLED" ->
         [st |-> [st EXCEPT !.playerId = "DEAD"], threw |-> FALSE,
          built |-> <<>>]
    [] msg.type = "GAME_OVER" ->
         [st |-> [st EXCEPT !.ws = FALSE], threw |-> FALSE, built |-> <<>>]

\* _handleServerMessage(msg) on the fields st: the fields afterwards,
\* whether it threw (NEW_ENTITIES before any MAP_DATA), and its calls of
\* constructEntities(this._em, this._mapData, msg)
_handleServerMessage(st, msg) ==
  CASE msg.type = "MAP_DATA" ->
         [st |-> [st EXCEPT !.actionQueue = <<>>, !.playerId = "UNSET",
                            !.mapData = msg.id],
          threw |-> FALSE, built |-> <<>>]
    [] msg.type = "NEW_ENTITIES" ->
         IF st.mapData = NoMap
         THEN [st |-> st, threw |-> TRUE, built |-> <<>>]
         ELSE [st |-> st, threw |-> FALSE,
               built |-> <<[msg |-> msg.id, mapData |-> st.mapData]>>]
    [] msg.type = "JOIN_GAME_SUCCESS" ->
         [st |-> [st EXCEPT !.playerId = "ALIVE"], threw |-> FALSE,
          built |-> <<>>]
    [] msg.type = "PLAYER_KILLED" ->
         [st |-> [st EXCEPT !.playerId = "DEAD"], threw |-> FALSE,
          built |-> <<>>]
    [] msg.type = "GAME_OVER" ->
         [st |-> [st EXCEPT !.ws = FALSE], threw |-> FALSE, built |-> <<>>]

\* _handleServerMessages(): the loop, on the fields st and the queue q; an
\* error thrown by _handleServerMessage leaves the loop after the shift
RECURSIVE _handleServerMessages(_, _, _, _)
_handleServerMessages(st, q, trace, made) ==
  IF Len(q) = 0
  THEN [st |-> st, q |-> q, trace |-> trace, threw |-> FALSE,
        built |-> made]
  ELSE LET msg == Head(q)
           r == _handleServerMessage(st, msg)
           t == Append(trace, Step("handle", msg.id))
       IN IF r.threw
          THEN [st |-> st, q |-> Tail(q),
                trace |-> Append(t, Step("throw", msg.id)), threw |-> TRUE,
                built |-> made]
          ELSE _handleServerMessages(r.st, Tail(q), t, made \o r.built)

\* _processUserActions() on the fields st: what it sends, and the fields
_processUserActions(st) ==
  IF st.ws
  THEN [st |-> [st EXCEPT !.actionQueue = <<>>],
        trace |-> IF st.playerId # "DEAD"
                  THEN [i \in DOMAIN st.actionQueue |-> Step("send", i)]
                  ELSE <<>>,
        sent |-> IF st.playerId # "DEAD" THEN st.actionQueue ELSE <<>>]
  ELSE [st |-> st, trace |-> <<>>, sent |-> <<>>]

\* The steps of a tick after the two queues
TickRest ==
  <<Step("scheduler.update", 0), Step("em.update", 0), Step("centreStage", 0)>>

\* A tick that sends the user actions before it drains the responses
_tick_sendFirst(st, q) ==
  LET p == _processUserActions(st)
      d == _handleServerMessages(p.st, q, p.trace, <<>>)
  IN IF d.threw
     THEN [st |-> d.st, q |-> d.q, trace |-> d.trace, sent |-> p.sent,
           built |-> d.built]
     ELSE [st |-> d.st, q |-> d.q, trace |-> d.trace \o TickRest,
           sent |-> p.sent, built |-> d.built]

\* _tick(delta) on the fields st and the response queue q
_tick(st, q) ==
  LET d == _handleServerMessages(st, q, <<>>, <<>>)
      p == _processUserActions(d.st)
  IN IF d.threw
     THEN [st |-> d.st, q |-> d.q, trace |-> d.trace, sent |-> <<>>,
           built |-> d.built]
     ELSE [st |-> p.st, q |-> d.q, trace |-> d.trace \o p.trace \o TickRest,
           sent |-> p.sent, built |-> d.built]

\* The ids the entries of trace with this step name carry, in order
StepIds(trace, name) ==
  LET F[i \in 0 .. Len(trace)] ==
        IF i = 0 THEN <<>>
        ELSE IF trace[i].step = name THEN Append(F[i - 1], trace[i].id)
             ELSE F[i - 1]
  IN F[Len(trace)]

\* The ticker calls _tick
Tick ==
  /\ LET r == _tick(ClientState, responseQueue)
     IN /\ responseQueue' = r.q
        /\ actionQueue' = r.st.actionQueue
        /\ clientWs' = r.st.ws
        /\ playerId' = r.st.playerId
        /\ mapData' = r.st.mapData
        /\ tickTrace' = r.trace
        /\ built' = r.built
        /\ handled' = handled \o StepIds(r.trace, "handle")
        /\ clientCall' = ClientCall("tick")
  /\ UNCHANGED <<arrived, discarded, nonClientVars>>

\* logOut(): disconnect, _terminateGame, and the response queue is emptied
LogOut ==
  /\ playerId' = "UNSET"
  /\ clientWs' = FALSE
  /\ actionQueue' = <<>>
  /\ responseQueue' = <<>>
  /\ discarded' =
       discarded \cup {responseQueue[i].id : i \in DOMAIN responseQueue}
  /\ tickTrace' = <<>>
  /\ built' = <<>>
  /\ clientCall' = ClientCall("logOut")
  /\ UNCHANGED <<mapData, arrived, handled, nonClientVars>>

(***************************************************************************)
(* Delayed callbacks: the animations of a sprite component of the          *)
(* RenderSystem (front/src/terrestria/render_system.ts), the callbacks of  *)
(* the gem (front/src/terrestria/entities/gem.ts) and the per-frame        *)
(* function of the blimp (back/src/entities/blimp.ts).  The Scheduler and  *)
(* the EntityManager are not part of the sources: a function given to      *)
(* addFunction fires once, later, unless removeFunction took it back; one  *)
(* given with a predicate fires every frame for as long as the predicate   *)
(* holds; removeEntity takes the entity and its components away, and does  *)
(* nothing for an entity that is not there.                                *)
(***************************************************************************)
\* The entity that owns the sprite component, and its animations: the one
\* of the gem has no end frame, the other one has
SpriteEntity == 1
Animations == {"gem_burn", "flash"}
NoAnimation == "null"
InitialImage == "gem.png"
EndFrame(name) == IF name = "flash" THEN "flash_end.png" ELSE "undefined"
NoHandle == -1

\* new CSprite(...) once RenderSystem._addSpriteComponent has run; staged
\* is the image or animation the game asked for last
NewSprite ==
  [currentSprite |-> InitialImage, staged |-> InitialImage,
   activeAnimation |-> NoAnimation,
   setEndFrameFnHandle |-> [a \in Animations |-> NoHandle],
   onComplete |-> [a \in Animations |-> "none"]]

\* What the scheduler holds for one addFunction call
ScheduledFn(handle, kind, name) ==
  [handle |-> handle, kind |-> kind, name |-> name]

SchedCall(op, kind) == [op |-> op, kind |-> kind, ownerGone |-> FALSE]

\* The blimp: xOffset, range and dx of constructBlimp, for a world of
\* WorldW blocks
WorldW == 1
BlimpXOffset == -BLOCK_SZ_WLD * 10
BlimpRange == (WorldW * BLOCK_SZ_WLD) - BlimpXOffset
BlimpDx == 1

\* desc.x of the blimp the model builds: close enough to the range for the
\* wrap to happen within MaxFrames frames
BlimpStartX == BlimpRange - 1

InitSched ==
  /\ frontEntities = {}
  /\ sprite = NewSprite
  /\ scheduled = {}
  /\ nextHandle = 1
  /\ blimp = [alive |-> TRUE, x |-> BlimpStartX, teleport |-> FALSE,
              frames |-> 0, fn |-> TRUE]
  /\ schedCall = SchedCall("new", "none")
  /\ schedRet = "void"

\* RenderSystem.hasComponent(id)
hasComponent(id) == id \in renderComponents

\* _spriteCompSetActiveSprite(c, name, animated) for a name the component
\* has: the component afterwards, and the scheduler's functions
_spriteCompSetActiveSprite(c, fns, name, animated) ==
  LET kept == IF c.activeAnimation # NoAnimation
              THEN {f \in fns :
                      f.handle # c.setEndFrameFnHandle[c.activeAnimation]}
              ELSE fns
  IN [c |-> IF animated
            THEN [c EXCEPT !.currentSprite = name, !.activeAnimation = name]
            ELSE [c EXCEPT !.currentSprite = name],
      fns |-> kept]

\* constructGem and the like: the entity with its sprite component
AddSpriteEntity ==
  /\ SpriteEntity \notin frontEntities
  /\ frontEntities' = frontEntities \cup {SpriteEntity}
  /\ renderComponents' = renderComponents \cup {SpriteEntity}
  /\ sprite' = NewSprite
  /\ schedCall' = SchedCall("addEntity", "none")
  /\ schedRet' = "void"
  /\ UNCHANGED <<scheduled, nextHandle, blimp>>
  /\ UNCHANGED <<renderCall, renderRet, nonSchedRenderVars>>

\* EntityManager.removeEntity(id): the entity and its render component
removeEntity(id) ==
  /\ frontEntities' = frontEntities \ {id}
  /\ renderComponents' = renderComponents \ {id}

\* The client handles ENTITIES_DELETED for the entity
ServerDeletesEntity ==
  /\ SpriteEntity \in frontEntities
  /\ removeEntity(SpriteEntity)
  /\ schedCall' = SchedCall("ENTITIES_DELETED", "none")
  /\ schedRet' = "void"
  /\ UNCHANGED <<sprite, scheduled, nextHandle, blimp>>
  /\ UNCHANGED <<renderCall, renderRet, nonSchedRenderVars>>

\* playAnimation(entityId, name, onFinish): getSpriteComponent throws for an
\* entity without component
PlayAnimation(name, withFinish) ==
  /\ schedCall' = SchedCall("playAnimation", "none")
  /\ IF hasComponent(SpriteEntity)
     THEN LET r == _spriteCompSetActiveSprite(sprite, scheduled, name, TRUE)
          IN /\ sprite' = [r.c EXCEPT
                             !.staged = name,
                             !.onComplete[name] =
                               IF withFinish THEN "onFinish" ELSE "plain"]
             /\ scheduled' = r.fns
             /\ schedRet' = "true"
     ELSE /\ schedRet' = "GameError"
          /\ UNCHANGED <<sprite, scheduled>>
  /\ UNCHANGED <<frontEntities, nextHandle, blimp>>
  /\ UNCHANGED nonSchedVars

\* setCurrentImage(entityId, name) by the game, for a static image of the
\* component: getComponent throws for an entity without component
SetCurrentImage(name) ==
  /\ schedCall' = SchedCall("setCurrentImage", "none")
  /\ IF hasComponent(SpriteEntity)
     THEN LET r == _spriteCompSetActiveSprite(sprite, scheduled, name, FALSE)
          IN /\ sprite' = [r.c EXCEPT !.staged = name]
             /\ scheduled' = r.fns
             /\ schedRet' = "void"
     ELSE /\ schedRet' = "GameError"
          /\ UNCHANGED <<sprite, scheduled>>
  /\ UNCHANGED <<frontEntities, nextHandle, blimp>>
  /\ UNCHANGED nonSchedVars

\* anim.sprite.onComplete of a playing animation, called by the renderer
\* when the last frame has been shown
AnimationCompletes(name) ==
  /\ sprite.onComplete[name] # "none"
  /\ LET c == sprite
         withFinish == c.onComplete[name] = "onFinish"
         staged == EndFrame(name) # "undefined" /\ c.activeAnimation = name
         h1 == nextHandle
         h2 == IF withFinish THEN nextHandle + 1 ELSE nextHandle
         finish == IF withFinish
                   THEN {ScheduledFn(h1, "onFinish", name)} ELSE {}
         endFrame == IF staged
                     THEN {ScheduledFn(h2, "endFrame", name)} ELSE {}
     IN /\ nextHandle' = IF staged THEN h2 + 1 ELSE h2
        /\ nextHandle' <= MaxHandles + 1
        /\ scheduled' = scheduled \cup finish \cup endFrame
        /\ sprite' = [c EXCEPT
                        !.onComplete[name] = "none",
                        !.setEndFrameFnHandle[name] =
                           IF staged THEN h2 ELSE @]
  /\ schedCall' = SchedCall("onComplete", "none")
  /\ schedRet' = "void"
  /\ UNCHANGED <<frontEntities, blimp>>
  /\ UNCHANGED nonSchedVars

\* An end-frame callback that does not ask hasComponent
endFrameFn_unguarded(has, c, fns, name) ==
  IF has
  THEN [ret |-> "void", acted |-> TRUE,
        r |-> _spriteCompSetActiveSprite(c, fns, EndFrame(name), FALSE)]
  ELSE [ret |-> "GameError", acted |-> FALSE, r |-> [c |-> c, fns |-> fns]]

\* The function playAnimation schedules for the end frame: setCurrentImage
\* if the entity has a render component, nothing otherwise
endFrameFn(has, c, fns, name) ==
  IF has
  THEN [ret |-> "void", acted |-> TRUE,
        r |-> _spriteCompSetActiveSprite(c, fns, EndFrame(name), FALSE)]
  ELSE [ret |-> "void", acted |-> FALSE, r |-> [c |-> c, fns |-> fns]]

\* The scheduler fires the end-frame function f
FireEndFrame(f) ==
  /\ f \in scheduled /\ f.kind = "endFrame"
  /\ LET out == endFrameFn(hasComponent(SpriteEntity), sprite,
                           scheduled \ {f}, f.name)
     IN /\ sprite' = out.r.c
        /\ scheduled' = out.r.fns
        /\ schedRet' = out.ret
  /\ schedCall' = [SchedCall("fire", "endFrame") EXCEPT
                     !.ownerGone = ~hasComponent(SpriteEntity)]
  /\ UNCHANGED <<frontEntities, nextHandle, blimp>>
  /\ UNCHANGED nonSchedVars

\* The scheduler fires the onFinish function f of the gem: removeEntity
FireOnFinish(f) ==
  /\ f \in scheduled /\ f.kind = "onFinish"
  /\ removeEntity(SpriteEntity)
  /\ scheduled' = scheduled \ {f}
  /\ schedCall' = [SchedCall("fire", "onFinish") EXCEPT
                     !.ownerGone = SpriteEntity \notin frontEntities]
  /\ schedRet' = "void"
  /\ UNCHANGED <<sprite, nextHandle, blimp>>
  /\ UNCHANGED <<renderCall, renderRet, nonSchedRenderVars>>

\* A blimp function that wraps one step late
blimpFn_wrapsLate(b) ==
  LET x == b.x + BlimpDx
  IN IF x > BlimpRange + 1
     THEN [b EXCEPT !.x = BlimpXOffset, !.teleport = TRUE]
     ELSE [b EXCEPT !.x = x, !.teleport = FALSE]

\* The function constructBlimp schedules, on the blimp b
blimpFn(b) ==
  LET x == b.x + BlimpDx
  IN IF x > BlimpRange
     THEN [b EXCEPT !.x = BlimpXOffset, !.teleport = TRUE]
     ELSE [b EXCEPT !.x = x, !.teleport = FALSE]

\* One frame of the server's scheduler: the predicate () => em.hasEntity(id)
\* decides whether the blimp's function runs or is dropped
BlimpFrame ==
  /\ blimp.fn
  /\ blimp.frames < MaxFrames
  /\ blimp' = IF blimp.alive
              THEN [blimpFn(blimp) EXCEPT !.frames = @ + 1]
              ELSE [blimp EXCEPT !.fn = FALSE]
  /\ schedCall' = [SchedCall("fire", "blimp") EXCEPT
                     !.ownerGone = ~blimp.alive]
  /\ schedRet' = "void"
  /\ UNCHANGED <<frontEntities, sprite, scheduled, nextHandle>>
  /\ UNCHANGED nonSchedVars

\* The server removes the blimp entity
RemoveBlimp ==
  /\ blimp.alive
  /\ blimp' = [blimp EXCEPT !.alive = FALSE]
  /\ schedCall' = SchedCall("removeEntity", "blimp")
  /\ schedRet' = "void"
  /\ UNCHANGED <<frontEntities, sprite, scheduled, nextHandle>>
  /\ UNCHANGED nonSchedVars

(***************************************************************************)
(* App (back/src/app.ts): users, games and the liveness of connections.    *)
(* The class Game is not part of the sources; the model keeps of a game    *)
(* what App asks of it: the ids of its players (hasPlayer, numPlayers),    *)
(* changed by addPlayer, removePlayer and respawnPlayer, each new player   *)
(* getting the next entity id.                                             *)
(***************************************************************************)
\* The connections the model follows.  The players of OtherSock belong to
\* connections that stay open and only answer pings.
Clients == 1 .. NumClients
OtherSock == 0
NoUser == 0
OtherPlayers == 1 .. (MAX_PLAYERS_PER_GAME - 2)
FirstFreshId == MAX_PLAYERS_PER_GAME - 1
PlayerIds == 1 .. (FirstFreshId + MaxFresh - 1)
GameIds == 1 .. (MaxFresh + 1)

\* What _handleConnection makes of a new socket
NewSock == [state |-> "open", isAlive |-> TRUE, userId |-> NoUser]
NoSock == [state |-> "none", isAlive |-> FALSE, userId |-> NoUser]

LobbyCall(op, sock) ==
  [op |-> op, sock |-> sock, type |-> "NONE", claimed |-> NoUser,
   error |-> "NONE"]

Response(sock, type, id) == [sock |-> sock, type |-> type, playerId |-> id]

\* The state of the App and its games as one record
Lobby ==
  [socks |-> socks, users |-> users, games |-> games, players |-> players,
   terminations |-> terminations,
   nextEntityId |-> nextEntityId, nextGameId |-> nextGameId,
   sent |-> <<>>, forwarded |-> <<>>, error |-> "NONE"]

\* No user and no game
InitLobby ==
  /\ socks = [s \in Clients |-> NoSock]
  /\ users = EmptyMap
  /\ games = {}
  /\ players = [g \in GameIds |-> {}]
  /\ terminations = [g \in GameIds |-> 0]
  /\ nextEntityId = FirstFreshId
  /\ nextGameId = 1
  /\ lobbyCall = LobbyCall("new", OtherSock)
  /\ lobbySent = <<>>
  /\ forwarded = <<>>

\* One game, two players short of full, its players on other connections
InitLobbyBusy ==
  /\ socks = [s \in Clients |-> NoSock]
  /\ users = [id \in OtherPlayers |->
                [ws |-> OtherSock, playerId |-> id, game |-> 1]]
  /\ games = {1}
  /\ players = [g \in GameIds |-> IF g = 1 THEN OtherPlayers ELSE {}]
  /\ terminations = [g \in GameIds |-> 0]
  /\ nextEntityId = FirstFreshId
  /\ nextGameId = 2
  /\ lobbyCall = LobbyCall("new", OtherSock)
  /\ lobbySent = <<>>
  /\ forwarded = <<>>

\* ws.terminate(): the socket is destroyed, its close event comes later
terminate(ss, s) ==
  IF s \in Clients /\ ss[s].state = "open"
  THEN [ss EXCEPT ![s].state = "closing"] ELSE ss

\* _terminateUser(id)
_terminateUser(L, id) ==
  IF id \in DOMAIN L.users
  THEN LET user == L.users[id]
           g == user.game
           left == [L.players EXCEPT ![g] = @ \ {id}]
       IN [L EXCEPT !.players = left,
                    !.socks = terminate(@, user.ws),
                    !.terminations[g] = IF left[g] = {} THEN @ + 1 ELSE @,
                    !.games = IF left[g] = {} THEN @ \ {g} ELSE @,
                    !.users = Drop(@, id)]
  ELSE L

\* A _chooseAvailableGame that takes a game that is full
_chooseAvailableGame_full(L) ==
  LET open == {g \in L.games :
                 Cardinality(L.players[g]) <= MAX_PLAYERS_PER_GAME}
  IN IF open # {}
     THEN [game |-> CHOOSE g \in open : \A h \in open : g <= h, L |-> L]
     ELSE [game |-> L.nextGameId,
           L |-> [L EXCEPT !.games = @ \cup {L.nextGameId},
                           !.nextGameId = @ + 1]]

\* _chooseAvailableGame(): the first game of the set, in insertion order,
\* with fewer than MAX_PLAYERS_PER_GAME players, or a new game
_chooseAvailableGame(L) ==
  LET open == {g \in L.games :
                 Cardinality(L.players[g]) < MAX_PLAYERS_PER_GAME}
  IN IF open # {}
     THEN [game |-> CHOOSE g \in open : \A h \in open : g <= h, L |-> L]
     ELSE [game |-> L.nextGameId,
           L |-> [L EXCEPT !.games = @ \cup {L.nextGameId},
                           !.nextGameId = @ + 1]]

\* _handleJoinGame(sock, data)
_handleJoinGame(L0, sock) ==
  LET chosen == _chooseAvailableGame(L0)
      L == chosen.L
      game == chosen.game
      entityId == L.nextEntityId
  IN [L EXCEPT
        !.nextEntityId = @ + 1,
        !.players[game] = @ \cup {entityId},
        !.socks[sock].userId = entityId,
        !.users = Put(@, entityId,
                      [ws |-> sock, playerId |-> entityId, game |-> game]),
        !.sent = Append(@, Response(sock, "JOIN_GAME_SUCCESS", entityId))]

\* A _respawnPlayer that leaves the record under the old id as well
_respawnPlayer_keepsOld(L, id) ==
  IF id \notin DOMAIN L.users
  THEN [L EXCEPT !.error = "GameError"]
  ELSE LET user == L.users[id]
           newId == L.nextEntityId
           moved == [user EXCEPT !.playerId = newId]
       IN [L EXCEPT
             !.nextEntityId = @ + 1,
             !.players[user.game] = (@ \ {id}) \cup {newId},
             !.users = Put(Put(@, id, moved), newId, moved),
             !.socks = IF user.ws \in Clients
                       THEN [@ EXCEPT ![user.ws].userId = newId] ELSE @,
             !.sent = Append(@, Response(user.ws, "NEW_PLAYER_ID", newId))]

\* _respawnPlayer(playerId)
_respawnPlayer(L, id) ==
  IF id \notin DOMAIN L.users
  THEN [L EXCEPT !.error = "GameError"]
  ELSE LET user == L.users[id]
           newId == L.nextEntityId
           moved == [user EXCEPT !.playerId = newId]
       IN [L EXCEPT
             !.nextEntityId = @ + 1,
             !.players[user.game] = (@ \ {id}) \cup {newId},
             !.users = Put(Drop(@, id), newId, moved),
             !.socks = IF user.ws \in Clients
                       THEN [@ EXCEPT ![user.ws].userId = newId] ELSE @,
             !.sent = Append(@, Response(user.ws, "NEW_PLAYER_ID", newId))]

\* A _handleClientMessage that forwards the playerId the client wrote
_handleClientMessage_asWritten(L, sock, type, claimed) ==
  IF type = "JOIN_GAME" THEN _handleJoinGame(L, sock)
  ELSE IF L.socks[sock].userId = NoUser
  THEN [L EXCEPT !.error = "BAD_MESSAGE"]
  ELSE IF L.socks[sock].userId \notin DOMAIN L.users
  THEN [L EXCEPT !.error = "INTERNAL_ERROR"]
  ELSE LET client == L.users[L.socks[sock].userId]
       IN IF type = "RESPAWN" THEN _respawnPlayer(L, claimed)
          ELSE [L EXCEPT !.forwarded =
                  Append(@, [game |-> client.game, playerId |-> claimed,
                             type |-> type])]

\* _handleClientMessage(sock, msg), for the actions that are not LOG_IN or
\* SIGN_UP; claimed is the playerId the client wrote in the action
_handleClientMessage(L, sock, type, claimed) ==
  IF type = "JOIN_GAME" THEN _handleJoinGame(L, sock)
  ELSE IF L.socks[sock].userId = NoUser
  THEN [L EXCEPT !.error = "BAD_MESSAGE"]
  ELSE IF L.socks[sock].userId \notin DOMAIN L.users
  THEN [L EXCEPT !.error = "INTERNAL_ERROR"]
  ELSE LET client == L.users[L.socks[sock].userId]
           id == L.socks[sock].userId
       IN IF type = "RESPAWN" THEN _respawnPlayer(L, id)
          ELSE [L EXCEPT !.forwarded =
                  Append(@, [game |-> client.game, playerId |-> id,
                             type |-> type])]

\* The catch of _wrap: the error goes back to the socket as an ERROR
\* response
Wrapped(L, sock) ==
  IF L.error = "NONE" THEN L
  ELSE [L EXCEPT !.sent = Append(@, Response(sock, "ERROR", NoUser))]

\* The variables take the state L
SetLobby(L) ==
  /\ socks' = L.socks
  /\ users' = L.users
  /\ games' = L.games
  /\ players' = L.players
  /\ terminations' = L.terminations
  /\ nextEntityId' = L.nextEntityId
  /\ nextGameId' = L.nextGameId
  /\ lobbySent' = L.sent
  /\ forwarded' = L.forwarded

\* The connection event of the server: _handleConnection(ws)
LobbyConnection(s) ==
  /\ socks[s].state = "none"
  /\ SetLobby([Lobby EXCEPT !.socks[s] = NewSock])
  /\ lobbyCall' = LobbyCall("connection", s)
  /\ UNCHANGED nonLobbyVars

\* The message event of an open socket: _wrap around _handleClientMessage
LobbyMessage(s, type, claimed) ==
  /\ socks[s].state = "open"
  /\ type \in {"JOIN_GAME", "RESPAWN"} => nextEntityId \in PlayerIds
  /\ LET L == _handleClientMessage(Lobby, s, type, claimed)
     IN /\ SetLobby(Wrapped(L, s))
        /\ lobbyCall' = [LobbyCall("message", s) EXCEPT
                           !.type = type, !.claimed = claimed,
                           !.error = L.error]
  /\ UNCHANGED nonLobbyVars

\* _respawnPlayer(playerId) called with an id that has no user
RespawnPlayer(id) ==
  /\ id \notin DOMAIN users
  /\ LET L == _respawnPlayer(Lobby, id)
     IN /\ SetLobby(L)
        /\ lobbyCall' = [LobbyCall("respawn", OtherSock) EXCEPT
                           !.claimed = id, !.error = L.error]
  /\ UNCHANGED nonLobbyVars

\* The pong event of a socket that has been pinged: _handlePong(sock)
Pong(s) ==
  /\ socks[s].state = "open"
  /\ ~socks[s].isAlive
  /\ SetLobby([Lobby EXCEPT !.socks[s].isAlive = TRUE])
  /\ lobbyCall' = LobbyCall("pong", s)
  /\ UNCHANGED nonLobbyVars

\* The close event of a socket, after the client left or after terminate():
\* the socket leaves wss.clients, and the handlers registered by
\* _handleJoinGame run, all with the same sock.userId
LobbyClose(s) ==
  /\ socks[s].state \in {"open", "closing"}
  /\ LET closed == [Lobby EXCEPT !.socks[s].state = "closed"]
     IN SetLobby(IF socks[s].userId # NoUser
                 THEN _terminateUser(closed, socks[s].userId)
                 ELSE closed)
  /\ lobbyCall' = LobbyCall("close", s)
  /\ UNCHANGED nonLobbyVars

\* The responses of _onGameOver: GAME_OVER to the users of ids, in order
RECURSIVE GameOverResponses(_, _)
GameOverResponses(us, ids) ==
  IF ids = {} THEN <<>>
  ELSE LET id == CHOOSE i \in ids : \A j \in ids : i <= j
           rest == GameOverResponses(us, ids \ {id})
       IN IF id \in DOMAIN us
          THEN <<Response(us[id].ws, "GAME_OVER", NoUser)>> \o rest
          ELSE rest

\* A game of the server calls back: _onGameOver(game)
GameOver(g) ==
  /\ g \in games
  /\ SetLobby([Lobby EXCEPT
                 !.terminations[g] = @ + 1,
                 !.games = @ \ {g},
                 !.sent = GameOverResponses(users, players[g])])
  /\ lobbyCall' = LobbyCall("gameOver", OtherSock)
  /\ UNCHANGED nonLobbyVars

\* The body of the forEach of _checkConnections for socket s
checkConnection(L, s) ==
  IF L.socks[s].isAlive = FALSE
  THEN IF L.socks[s].userId # NoUser
       THEN _terminateUser(L, L.socks[s].userId)
       ELSE L
  ELSE [L EXCEPT !.socks[s].isAlive = FALSE]

\* _checkConnections(): wss.clients.forEach, over the sockets that were in
\* wss.clients when it began
RECURSIVE _checkConnections(_, _)
_checkConnections(L, todo) ==
  IF todo = {} THEN L
  ELSE LET s == CHOOSE t \in todo : \A u \in todo : t <= u
       IN _checkConnections(checkConnection(L, s), todo \ {s})

\* The timer of the constructor fires
CheckConnections ==
  /\ SetLobby(_checkConnections(
       Lobby, {s \in Clients : socks[s].state \in {"open", "closing"}}))
  /\ lobbyCall' = LobbyCall("check", OtherSock)
  /\ UNCHANGED nonLobbyVars

(***************************************************************************)
(* The award notifications of the client (unnamed/part_007).  The          *)
(* Scheduler is called once in every frame (App._tick); the clock is the   *)
(* time in milliseconds since the notification entity was constructed.     *)
(***************************************************************************)
\* The times between two frames: an ordinary gap, the delay of a
\* notification, and a page that was hidden for a while
FrameGaps == {250, NOTIFICATION_DELAY_MS, 3000}

\* What the scheduler holds for one addFunction call of part_007
AwardFn(kind, award, due) == [kind |-> kind, award |-> award, due |-> due]
\* One entry of the history of the notifications
AwardStep(what, award, at) == [what |-> what, award |-> award, at |-> at]

\* The awards granted so far
Granted(log) == Cardinality({i \in DOMAIN log : log[i].what = "granted"})

\* constructAwardNotification: cantShowUntil = { value: 0 }, nothing
\* scheduled
InitAward ==
  /\ clock = 0
  /\ cantShowUntil = 0
  /\ awardFns = <<>>
  /\ awardLog = <<>>

\* The handler of CLIENT_AWARD_GRANTED
onAwardGranted ==
  LET now == clock
      idealShow == now + NOTIFICATION_DELAY_MS
      t == IF cantShowUntil > idealShow THEN cantShowUntil ELSE idealShow
      dt == t - now
      award == Granted(awardLog) + 1
  IN /\ award <= MaxAwards
     /\ cantShowUntil' = t + NOTIFICATION_DURATION_MS + NOTIFICATION_DELAY_MS
     /\ awardFns' = Append(awardFns, AwardFn("display", award, now + dt))
     /\ awardLog' = Append(awardLog, AwardStep("granted", award, now))
     /\ clock' = clock
     /\ UNCHANGED nonAwardVars

\* displayNotification(em, scheduler, event) at time now: the entities are
\* constructed and their removal is scheduled
displayNotification(st, award, now) ==
  [fns |-> Append(st.fns,
                  AwardFn("remove", award, now + NOTIFICATION_DURATION_MS)),
   log |-> Append(st.log, AwardStep("displayed", award, now))]

\* The function displayNotification scheduled: the entities are removed
removeNotification(st, award, now) ==
  [st EXCEPT !.log = Append(@, AwardStep("removed", award, now))]

\* The scheduler calls the functions of todo, in the order they were added
RECURSIVE runAwardFns(_, _, _)
runAwardFns(st, todo, now) ==
  IF todo = <<>> THEN st
  ELSE LET f == Head(todo)
           after == IF f.kind = "display"
                    THEN displayNotification(st, f.award, now)
                    ELSE removeNotification(st, f.award, now)
       IN runAwardFns(after, Tail(todo), now)

\* The frame that comes gap milliseconds after the last one:
\* scheduler.update() calls every function whose delay has passed
SchedulerUpdate(gap) ==
  LET now == clock + gap
      IsDue(f) == f.due <= now
      IsWaiting(f) == ~IsDue(f)
      r == runAwardFns([fns |-> SelectSeq(awardFns, IsWaiting),
                        log |-> awardLog],
                       SelectSeq(awardFns, IsDue), now)
  IN /\ now <= MaxClock
     /\ clock' = now
     /\ awardFns' = r.fns
     /\ awardLog' = r.log
     /\ cantShowUntil' = cantShowUntil
     /\ UNCHANGED nonAwardVars

(***************************************************************************)
(* Specifications of the physics adapter.                                  *)
(***************************************************************************)
vars == <<freeVars, gridVars, syncVars, serverVars, renderVars, fenceVars,
          appVars, clientVars, schedVars, lobbyVars, awardVars>>

\* The entity whose movement Spec explores
Mover == 1

\* The parts of the program other than the fences, when constructed
InitCore ==
  /\ InitFree /\ InitGrid /\ InitSync /\ InitServer /\ InitRender /\ InitApp
  /\ InitClient /\ InitSched /\ InitAward

InitRest == InitCore /\ InitLobby

Init == InitRest /\ InitFenced

Next ==
  \/ \E x, y \in Positions : AddComponent(Mover, x, y)
  \/ \E d \in Directions : MoveAgent(Mover, d)
  \/ EngineUpdate({Mover})
  \/ \E p \in DOMAIN evActive :
       \E cs \in Orders(evActive[p]) : CollisionActive(p, cs)
  \/ CollisionEnd
  \/ UpdateReturns

Spec == Init /\ [][Next]_vars

\* Where entity e is placed in SpecCollision: a stack on the floor, entity 1
\* at the bottom
Spawn(e) == [x |-> 0, y |-> FloorY - e * BLOCK_SZ_WLD]

NextCollision ==
  \/ \E e \in Entities : AddComponent(e, Spawn(e).x, Spawn(e).y)
  \/ \E e \in Entities : RemoveComponent(e)
  \/ EngineUpdate({})
  \/ \E p \in DOMAIN evActive :
       \E cs \in Orders(evActive[p]) : CollisionActive(p, cs)
  \/ CollisionEnd
  \/ UpdateReturns

SpecCollision == Init /\ [][NextCollision]_vars

NextGrid ==
  \/ \E e \in Entities, props \in GridModeProps, c \in Cells :
       GridPlace(e, props, c)
  \/ \E e \in Entities : GridRemove(e)
  \/ \E e \in Entities, d \in Directions : GridMoveAgent(e, d)

SpecGrid == Init /\ [][NextGrid]_vars

NextSync ==
  \/ \E e \in Entities : AgentAddComponent(e)
  \/ \E e \in Entities : AgentRemoveComponent(e)
  \/ \E e \in Entities : AgentSetDirty(e)
  \/ GetDirties
  \/ \E p \in SpatialPoints, t \in BOOLEAN : SetInstantaneousPos(p, t)
  \/ \E p \in SpatialPoints, t \in BOOLEAN : SetStaticPos(p, t)
  \/ \E attr \in {"x", "y", "x_abs", "y_abs"} : GetSpatial(attr)
  \/ IsDirty
  \/ \E p \in SpatialPoints : ModeTransition(p)
  \/ SpatialHarvest

SpecSync == Init /\ [][NextSync]_vars

NextServer ==
  \/ \E p \in SpatialPoints : ServerSetInstantaneousPos(p)
  \/ \E p \in SpatialPoints : ServerSetStaticPos(p)
  \/ \E attr \in {"x", "y"} : ServerGet(attr)
  \/ ServerIsDirty
  \/ ServerSetClean
  \/ \E p \in SpatialPoints : ServerModeTransition(p)

SpecServer == Init /\ [][NextServer]_vars

NextApp ==
  \/ \E s \in Sockets : HandleConnection(s)
  \/ \E s \in Sockets : SocketCloses(s)
  \/ \E s \in Sockets, err \in Errors \cup {NoError} : ClientMessage(s, err)
  \/ \E s \in Sockets : ClientMessageAwaits(s)
  \/ \E s \in Sockets, err \in Errors \cup {NoError} : AwaitSettles(s, err)
  \/ \E s \in Sockets, outcome \in SignUpOutcomes : SignUpSettles(s, outcome)

SpecApp == Init /\ [][NextApp]_vars

NextClient ==
  \/ ClientConnect
  \/ \E type \in ResponseTypes : OnServerMessage(type)
  \/ OnDirectionKeyDown
  \/ OnDirectionKeyUp
  \/ Tick
  \/ LogOut

SpecClient == Init /\ [][NextClient]_vars

\* The animations played: the one of the gem with its onFinish, as
\* constructGem plays it, and the one with an end frame without
Plays == {<<"gem_burn", TRUE>>, <<"flash", FALSE>>}

NextCallbacks ==
  \/ AddSpriteEntity
  \/ ServerDeletesEntity
  \/ \E play \in Plays : PlayAnimation(play[1], play[2])
  \/ SetCurrentImage(InitialImage)
  \/ \E name \in Animations : AnimationCompletes(name)
  \/ \E f \in scheduled : FireEndFrame(f)
  \/ \E f \in scheduled : FireOnFinish(f)
  \/ BlimpFrame
  \/ RemoveBlimp

SpecCallbacks == Init /\ [][NextCallbacks]_vars

\* The playerId the client of socket s writes in an action: none, the id
\* of a player of another connection, or its own
Claimed(s) == {NoUser, 1, socks[s].userId}

NextLobby ==
  \/ \E s \in Clients : LobbyConnection(s)
  \/ \E s \in Clients, type \in {"JOIN_GAME", "RESPAWN", "USER_INPUT"} :
       \E claimed \in Claimed(s) : LobbyMessage(s, type, claimed)
  \/ \E id \in PlayerIds : RespawnPlayer(id)
  \/ \E s \in Clients : Pong(s)
  \/ \E s \in Clients : LobbyClose(s)
  \/ CheckConnections

\* The server with one game that is nearly full
InitLobbies == InitCore /\ InitFenced /\ InitLobbyBusy

SpecLobby == InitLobbies /\ [][NextLobby]_vars

\* The same server with games that come to their end
NextGameOver ==
  \/ NextLobby
  \/ \E g \in GameIds : GameOver(g)

SpecGameOver == InitLobbies /\ [][NextGameOver]_vars

\* Awards are granted and frames come, at every gap
NextAwards ==
  \/ onAwardGranted
  \/ \E gap \in FrameGaps : SchedulerUpdate(gap)

SpecAwards == Init /\ [][NextAwards]_vars

NextFences == SetupFences

\* An adapter under construction, for every region
InitFences == InitRest /\ InitUnfenced

SpecFences == InitFences /\ [][NextFences]_vars

\* The centres and radii of the squares asked for: left of, over and right
\* of the bodies, in the row of each entity and inside the fence
QueryXs ==
  {-BLOCK_SZ_WLD} \cup Positions \cup {MaxPos * PosStep + 2 * BLOCK_SZ_WLD}
QueryYs ==
  {Spawn(e).y + BLOCK_SZ_WLD \div 2 : e \in Entities} \cup {FloorY + 4}
Radii == {0, BLOCK_SZ_WLD \div 2}

NextQuery ==
  \/ \E e \in Entities, x \in Positions : AddComponent(e, x, Spawn(e).y)
  \/ \E e \in Entities : RemoveComponent(e)
  \/ \E x \in QueryXs, y \in QueryYs, r \in Radii :
       EntitiesWithinRadius(x, y, r)

SpecQuery == Init /\ [][NextQuery]_vars

\* The ids looked up: that of an entity the systems hold at times, and one
\* no entity ever had
LookupIds == {Mover, NumEntities + 1}

NextLookup ==
  \/ AddComponent(Mover, Spawn(Mover).x, Spawn(Mover).y)
  \/ RemoveComponent(Mover)
  \/ \E e \in LookupIds : GetComponent(e)
  \/ \E e \in LookupIds, d \in Directions : MoveAgentUnknown(e, d)
  \/ AgentAddComponent(Mover)
  \/ AgentRemoveComponent(Mover)
  \/ \E e \in LookupIds : AgentGetComponent(e)
  \/ \E e \in LookupIds : AgentHasComponent(e)
  \/ RenderAddComponent(Mover)
  \/ RenderRemoveComponent(Mover)
  \/ \E e \in LookupIds : RenderGetComponent(e)

SpecLookup == Init /\ [][NextLookup]_vars

TypeOK ==
  /\ DOMAIN componentsByEntityId \subseteq Entities
  /\ DOMAIN grounded \subseteq Entities
  /\ collisions \subseteq PairIds
  /\ pc \in {"idle", "collisionActive", "collisionEnd", "return"}
  /\ ret \in {"true", "false", "void", "component", "GameError", "set"}

(***************************************************************************)
(* Properties of moveAgent, under Spec.                                    *)
(***************************************************************************)
\* A step that is a moveAgent call
IsMoveAgent == call'.op = "moveAgent"

\* The cell that contains the centre of body b
CentreCell(b) ==
  <<(2 * b.x + BLOCK_SZ_WLD) \div (2 * BLOCK_SZ_WLD),
    (2 * b.y + BLOCK_SZ_WLD) \div (2 * BLOCK_SZ_WLD)>>

\* The cell that contains the point three quarters of a block from the
\* centre of body b in direction d
CellAhead(b, d) ==
  <<(4 * b.x + 2 * BLOCK_SZ_WLD + 3 * BLOCK_SZ_WLD * directionToVector(d).x)
      \div (4 * BLOCK_SZ_WLD),
    (4 * b.y + 2 * BLOCK_SZ_WLD + 3 * BLOCK_SZ_WLD * directionToVector(d).y)
      \div (4 * BLOCK_SZ_WLD)>>

\* C1: moveAgent(id, UP) of a tracked entity, when no transition fires,
\* returns false if no grounded contact is recorded for the entity, and then
\* leaves the body's velocity as it was and posts no move event; if a
\* grounded contact is recorded it returns true and the vertical velocity
\* has magnitude PLAYER_VELOCITY_V afterwards.
C1_UpNeedsGrounded ==
  [][(IsMoveAgent /\ call'.dir = "UP" /\ ~call'.fired) =>
       LET e == call'.id
       IN IF e \in DOMAIN grounded
          THEN /\ ret' = "true"
               /\ body'[e].vy \in {-PLAYER_VELOCITY_V, PLAYER_VELOCITY_V}
          ELSE /\ ret' = "false"
               /\ body' = body
               /\ posted' = <<>>]_vars

\* C1 witness: an UP call of an entity without grounded record was rejected
C1_Witness ==
  /\ call.op = "moveAgent" /\ call.dir = "UP"
  /\ ~call.fired /\ ~call.grounded
  /\ ret = "false"
  /\ call.id \in DOMAIN componentsByEntityId

\* C2: a successful LEFT, RIGHT or UP call without transition overrides one
\* velocity axis: LEFT and RIGHT set the horizontal velocity to magnitude
\* PLAYER_VELOCITY_H and keep the vertical one, UP sets the vertical
\* velocity to magnitude PLAYER_VELOCITY_V and keeps the horizontal one.  No
\* moveAgent call changes both axes.
C2_OneAxis ==
  [][IsMoveAgent =>
       LET e == call'.id
           b == body[e]
           nb == body'[e]
           ok == ~call'.fired /\ ret' = "true"
       IN /\ ~(nb.vx # b.vx /\ nb.vy # b.vy)
          /\ (ok /\ call'.dir \in {"LEFT", "RIGHT"}) =>
               /\ nb.vx \in {-PLAYER_VELOCITY_H, PLAYER_VELOCITY_H}
               /\ nb.vy = b.vy
          /\ (ok /\ call'.dir = "UP") =>
               /\ nb.vy \in {-PLAYER_VELOCITY_V, PLAYER_VELOCITY_V}
               /\ nb.vx = b.vx]_vars

\* C2 witness: a horizontal call set the horizontal velocity of a body that
\* keeps a vertical velocity
C2_Witness ==
  /\ call.op = "moveAgent" /\ call.dir \in {"LEFT", "RIGHT"}
  /\ ~call.fired /\ ret = "true"
  /\ call.id \in DOMAIN componentsByEntityId
  /\ body[call.id].vx \in {-PLAYER_VELOCITY_H, PLAYER_VELOCITY_H}
  /\ body[call.id].vy # 0

\* C3: moveAgent(id, DOWN) of a tracked entity returns true, grounded or
\* not, and when no transition fires both velocity axes are as before.
C3_DownSucceeds ==
  [][(IsMoveAgent /\ call'.dir = "DOWN") =>
       /\ ret' = "true"
       /\ ~call'.fired => body' = body]_vars

\* C3 witness: a DOWN call of an entity without grounded record returned
\* true with no transition
C3_Witness ==
  /\ call.op = "moveAgent" /\ call.dir = "DOWN"
  /\ ~call.fired /\ ~call.grounded
  /\ ret = "true"

\* C4: the transition is tried before the grounded check and before any
\* velocity change: whenever it fires the call returns true, in every
\* direction and whether the entity is grounded or not, and the body's
\* velocity is as before the call.
C4_TransitionFirst ==
  [][(IsMoveAgent /\ call'.fired) =>
       /\ call'.offered
       /\ ret' = "true"
       /\ body' = body]_vars

\* C4 witness: the transition fired on an UP call of an entity that was not
\* grounded
C4_Witness ==
  /\ call.op = "moveAgent" /\ call.dir = "UP"
  /\ call.fired /\ ~call.grounded
  /\ ret = "true"

C6_CleanAnchor ==
  [][IsMoveAgent =>
       LET b == body[call'.id]
           cell == call'.cell
           centre == CentreCell(b)
           u == directionToVector(call'.dir)
           dx == cell[1] - centre[1]
           dy == cell[2] - centre[2]
       IN /\ call'.offered =>
               /\ call'.target = <<cell[1] * BLOCK_SZ_WLD,
                                   cell[2] * BLOCK_SZ_WLD>>
               /\ call'.target[1] % BLOCK_SZ_WLD = 0
               /\ call'.target[2] % BLOCK_SZ_WLD = 0
          /\ dx \in {0, u.x}
          /\ dy \in {0, u.y}]_vars

\* C6 witness: a transition was offered for a body that was not on a cell
\* anchor, to the cell next to its centre's cell
C6_Witness ==
  /\ call.op = "moveAgent" /\ call.offered
  /\ body[call.id].x % BLOCK_SZ_WLD # 0
  /\ call.cell # CentreCell(body[call.id])
  /\ call.target[1] % BLOCK_SZ_WLD = 0

(***************************************************************************)
(* Properties of the collision handlers, under SpecCollision.              *)
(***************************************************************************)
\* A step that is one pass of the collisionActive handler
IsCollisionActive == call'.op = "collisionActive"

\* The ENTITY_COLLISION events among the events in sequence evs
CollisionEvents(evs) ==
  {i \in DOMAIN evs : evs[i].type = "ENTITY_COLLISION"}

\* C7: a notification of a pair of two tracked bodies posts one
\* ENTITY_COLLISION event naming both entities if the pair has not been
\* notified active since its last processed collisionEnd, and none
\* otherwise; a pair with an untracked body posts none; nothing else posts
\* such an event.
C7_OncePerPair ==
  [][/\ IsCollisionActive =>
          LET p == call'.pair
          IN IF p \notin notified /\ Tracked(p[1]) /\ Tracked(p[2])
             THEN posted' = <<EntityCollision(componentsByBodyId[p[1]],
                                              componentsByBodyId[p[2]])>>
             ELSE posted' = <<>>
     /\ ~IsCollisionActive => CollisionEvents(posted') = {}]_vars

\* C7 witness: a pair of two tracked bodies was notified again while it
\* stayed active, and the notification posted no event
C7_Witness ==
  /\ call.op = "collisionActive"
  /\ call.pair = <<BodyOf(1), BodyOf(2)>>
  /\ Tracked(BodyOf(1)) /\ Tracked(BodyOf(2))
  /\ call.pair \in notified
  /\ posted = <<>>

\* The ground contact of entity e that the pass recorded in cl shows last;
\* <<>> if it shows none
LastGround(e, cl) ==
  LET idx == {i \in DOMAIN cl.contacts :
                /\ e \in PairEntities(cl.pair)
                /\ isGroundContact(Bounds(body[e]),
                                   cl.vertices[cl.contacts[i]])}
  IN IF idx = {} THEN <<>>
     ELSE cl.contacts[CHOOSE i \in idx : \A j \in idx : j <= i]

\* The grounded record of e is created only by a pass of the collisionActive
\* handler that shows a contact inside the hot spot of e
GroundedCreated(e) ==
  (e \notin DOMAIN grounded /\ e \in DOMAIN grounded') =>
    /\ IsCollisionActive
    /\ LastGround(e, call') # <<>>

\* The grounded record of e is cleared only by a collisionEnd of a pair of e
\* whose contacts include the recorded id, or by the removal of the component
GroundedCleared(e) ==
  (e \in DOMAIN grounded /\ e \notin DOMAIN grounded') =>
    \/ /\ call'.op = "collisionEnd"
       /\ \E p \in evEnd : /\ e \in PairEntities(p)
                           /\ grounded[e] \in pairs[p].contacts
    \/ e \notin DOMAIN componentsByEntityId'

\* A collisionEnd whose pairs' contacts do not include the recorded id
\* leaves e grounded, with the same id
GroundedSurvivesEnd(e) ==
  (/\ call'.op = "collisionEnd"
   /\ e \in DOMAIN grounded
   /\ \A p \in evEnd : grounded[e] \notin pairs[p].contacts) =>
    /\ e \in DOMAIN grounded'
    /\ grounded'[e] = grounded[e]

\* C8 as stated: created at the first detection, cleared only by the end of
\* the recorded contact id or the removal of the component, and a later
\* detection of another ground contact does not replace the recorded id.
C8_FirstIdKept ==
  [][\A e \in Entities :
       /\ GroundedCreated(e)
       /\ GroundedCleared(e)
       /\ GroundedSurvivesEnd(e)
       /\ (e \in DOMAIN grounded /\ e \in DOMAIN grounded') =>
            grounded'[e] = grounded[e]]_vars

\* C8: the grounded record is created when a collisionActive notification
\* shows a contact inside the hot spot, and cleared only when a collisionEnd
\* reports the recorded contact id or the component is removed; a
\* collisionEnd without the recorded id leaves it.  Every notification that
\* shows ground contacts of the entity replaces the recorded id by the one
\* it shows last; nothing else changes the id.
C8_LastIdKept ==
  [][\A e \in Entities :
       /\ GroundedCreated(e)
       /\ GroundedCleared(e)
       /\ GroundedSurvivesEnd(e)
       /\ (IsCollisionActive /\ LastGround(e, call') # <<>>) =>
            /\ e \in DOMAIN grounded'
            /\ grounded'[e] = LastGround(e, call')
       /\ (/\ e \in DOMAIN grounded /\ e \in DOMAIN grounded'
           /\ grounded'[e] # grounded[e]) =>
            /\ IsCollisionActive
            /\ LastGround(e, call') # <<>>]_vars

\* C8 witness: a notification showed two contacts inside the hot spot of an
\* entity, and the record holds the second
C8_Witness ==
  /\ call.op = "collisionActive"
  /\ Len(call.contacts) = 2
  /\ \E e \in PairEntities(call.pair) :
       /\ \A i \in 1 .. 2 :
            isGroundContact(Bounds(body[e]), call.vertices[call.contacts[i]])
       /\ e \in DOMAIN grounded
       /\ grounded[e] = call.contacts[2]

\* C9 as stated: when the handlers of an engine step have run, every tracked
\* entity for which the step showed an active contact inside its hot spot
\* is recorded as grounded.
C9_NoFlicker ==
  pc = "return" =>
    \A e \in standing \cap DOMAIN componentsByEntityId :
      e \in DOMAIN grounded

(***************************************************************************)
(* Properties of the grid, under SpecGrid.                                 *)
(***************************************************************************)
\* The blocking entities in cell c
BlockingIn(c) == {e \in gridCells[c] : gridProps[e].blocking}

\* C10: in every state reached by placements and moveAgent calls each cell
\* holds one blocking entity at most; a moveAgent call whose target cell
\* holds a blocking entity returns false and leaves every entity's cell as
\* it was.
C10_OneBlockingPerCell ==
  /\ [](\A c \in Cells : Cardinality(BlockingIn(c)) <= 1)
  /\ [][(/\ gridCall'.op = "moveAgent"
         /\ gridCall'.target \in Cells
         /\ BlockingIn(gridCall'.target) # {}) =>
          /\ gridRet' = "false"
          /\ gridPos' = gridPos
          /\ gridCells' = gridCells]_vars

\* C10 witness: a blocking entity's move into the cell of another blocking
\* entity was rejected
C10_Witness ==
  /\ gridCall.op = "moveAgent"
  /\ gridRet = "false"
  /\ gridCall.target \in Cells
  /\ gridProps[gridCall.id].blocking
  /\ BlockingIn(gridCall.target) # {}
  /\ gridCall.id \notin gridCells[gridCall.target]

(***************************************************************************)
(* Properties of the synchronized components, under SpecSync.              *)
(***************************************************************************)
Range(s) == {s[i] : i \in DOMAIN s}
NoRepeats(s) == \A i, j \in DOMAIN s : s[i] = s[j] => i = j

\* C11: a harvest reports a component exactly once if it was mutated once
\* or more since the previous harvest, and clears its flag; a component not
\* mutated since then is absent; with nothing dirty the harvest returns an
\* empty list.  For getDirties of the AgentSystem and for isDirty/setClean
\* of a CSpatial.
C11_HarvestOnce ==
  [][/\ syncCall'.op = "AgentSystem.getDirties" =>
          /\ syncRet'.kind = "list"
          /\ NoRepeats(syncRet'.ids)
          /\ Range(syncRet'.ids) = agentMutated
          /\ \A i \in DOMAIN agentComponents' : ~agentComponents'[i].dirty
     /\ syncCall'.op = "harvest" =>
          /\ syncRet'.kind = "list"
          /\ syncRet'.ids = IF spatialMutated THEN <<SpatialEntity>>
                            ELSE <<>>
          /\ ~CSpatial_isDirty(cSpatial')]_vars

\* A harvest of two agent components that reports the one mutated since the
\* harvest before
C11_Witness ==
  /\ syncCall.op = "AgentSystem.getDirties"
  /\ Len(agentComponents) = 2
  /\ Len(syncRet.ids) = 1

\* The subcomponent currentMode selects
Selected(c) == IF c.currentMode = "GRID_MODE" THEN c.gridMode ELSE c.freeMode

\* C12: in either mode every read of a CSpatial (x, y, x_abs, y_abs,
\* isDirty) returns the value of the subcomponent selected by currentMode,
\* never that of the other one.
C12_ReadsRouted ==
  [][/\ syncCall'.op \in {"x", "y", "x_abs", "y_abs"} =>
          syncRet'.num = SubRead(Selected(cSpatial), syncCall'.op)
     /\ syncCall'.op = "isDirty" =>
          syncRet'.flag = Selected(cSpatial).dirty]_vars

\* A read of x in free mode, the two subcomponents being at different
\* positions, that returned the free-mode value
C12_Witness ==
  /\ syncCall.op = "x"
  /\ cSpatial.currentMode = "FREE_MODE"
  /\ cSpatial.freeMode.x # cSpatial.gridMode.x
  /\ syncRet.num = cSpatial.freeMode.x

C13_FreeDirtyReported ==
  [][(serverCall' = "isDirty" /\ serverSpatial.currentMode = "FREE_MODE")
       => serverRet'.flag = serverSpatial.freeMode.dirty]_vars

(***************************************************************************)
(* Properties of the component lookups, under SpecLookup.                  *)
(***************************************************************************)
\* C15: the lookup of a component that does not exist throws a GameError
\* and never returns null or undefined: getComponent of FreeModeImpl, of
\* the AgentSystem and of the RenderSystem for an id never added or since
\* removed, and moveAgent of FreeModeImpl for such an id, which throws
\* rather than returning false.
C15_LookupThrows ==
  [][/\ (call'.op \in {"getComponent", "moveAgent"}
           /\ call'.id \notin DOMAIN componentsByEntityId)
          => ret' = "GameError"
     /\ (syncCall'.op = "AgentSystem.getComponent"
           /\ syncCall'.id \notin AgentIds(agentComponents))
          => syncRet'.kind = "GameError"
     /\ (renderCall'.op = "getComponent"
           /\ renderCall'.id \notin renderComponents)
          => renderRet' = "GameError"]_vars

\* Each of the three systems has been asked for the component of an entity
\* that it held before, and moveAgent has been called for such an entity:
\* all of them threw
C15_Witness ==
  /\ call.op = "moveAgent" /\ call.id \in Entities /\ ret = "GameError"
  /\ syncCall.op = "AgentSystem.getComponent" /\ syncCall.id \in Entities
  /\ syncRet.kind = "GameError"
  /\ renderCall.op = "getComponent" /\ renderCall.id \in Entities
  /\ renderRet = "GameError"
  /\ world = {FenceBody}

(***************************************************************************)
(* Properties of removal, under SpecCollision.                             *)
(***************************************************************************)
\* C16: removeComponent tears the component down in one pass: afterwards
\* its body is not in the world, its entity is in neither table and not in
\* the grounded map, and getComponent for it throws; the collision
\* notifications that still come for its body neither post an
\* ENTITY_COLLISION that names the entity nor record it as grounded.
C16_RemovedIsGone ==
  [][/\ call'.op = "removeComponent" =>
          /\ BodyOf(call'.id) \notin world'
          /\ call'.id \notin DOMAIN componentsByEntityId'
          /\ BodyOf(call'.id) \notin DOMAIN componentsByBodyId'
          /\ call'.id \notin DOMAIN grounded'
          /\ getComponentIn(componentsByEntityId', call'.id) = "GameError"
     /\ \A e \in Entities \ DOMAIN componentsByEntityId' :
          /\ e \notin DOMAIN grounded'
          /\ \A i \in DOMAIN posted' : e \notin Range(posted'[i].entities)
    ]_vars

\* The collisionEnd notification for a pair of a removed body has been
\* handled: the engine still has the pair in its table, the entity is not
\* tracked and not grounded
C16_Witness ==
  /\ call.op = "collisionEnd"
  /\ \E e \in Entities \ DOMAIN componentsByEntityId :
       /\ BodyOf(e) \notin world
       /\ \E p \in DOMAIN pairs : BodyOf(e) \in {p[1], p[2]}
       /\ e \notin DOMAIN grounded

(***************************************************************************)
(* The blimp (back/src/entities/blimp.ts), under SpecCollision.            *)
(***************************************************************************)
\* The free-mode properties constructBlimp gives its CSpatial
BlimpFreeModeProps ==
  [heavy |-> FALSE, fixedAngle |-> FALSE, bodiless |-> TRUE]

\* The entities built by constructBlimp: the last one.  addComponent, the
\* engine and the two handlers read no free-mode property, so the blimp's
\* component is added, collides and is notified as every other one.
Blimps == {NumEntities}

Meet(a1, a2, b1, b2) == \E v \in a1 .. a2 : b1 <= v /\ v <= b2

\* The ids of the tracked entities whose body bounds intersect the square
\* of centre at and half side r
InSquare(at, r) ==
  {e \in DOMAIN componentsByEntityId :
     LET b == Bounds(body[e])
     IN /\ Meet(at[1] - r, at[1] + r, b.min.x, b.max.x)
        /\ Meet(at[2] - r, at[2] + r, b.min.y, b.max.y)}

\* C18: entitiesWithinRadius(x, y, r) returns exactly the ids of the
\* tracked entities whose body bounds intersect the square [x - r, x + r]
\* by [y - r, y + r], each id once; untracked bodies such as the fence
\* contribute nothing.
C18_WithinSquare ==
  [][call'.op = "entitiesWithinRadius" =>
       /\ call'.found = InSquare(call'.at, call'.r)
       /\ call'.found \subseteq Entities]_vars

\* A query whose square meets the fence and the bounds of one of two tracked
\* entities: it returned that entity alone
C18_Witness ==
  /\ call.op = "entitiesWithinRadius"
  /\ Cardinality(DOMAIN componentsByEntityId) = 2
  /\ Cardinality(call.found) = 1
  /\ call.at[2] + call.r >= FloorY

(***************************************************************************)
(* Properties of the fences, under SpecFences.                             *)
(***************************************************************************)
FenceThickness == BLOCK_SZ_WLD \div 2

\* The cells next to cell c
Neighbours(c) ==
  {<<c[1] + 1, c[2]>>, <<c[1] - 1, c[2]>>, <<c[1], c[2] + 1>>,
   <<c[1], c[2] - 1>>}

\* The perimeter edges of a region: a cell inside and a neighbour outside
Boundary(cells) ==
  {cn \in cells \X UNION {Neighbours(c) : c \in cells} :
     cn[2] \in Neighbours(cn[1]) \ cells}

\* The rectangle as long as the side that cell c shares with its neighbour
\* n, FenceThickness wide, that lies in n along that side: its middle line
\* is half a fence thickness outward from the edge
Strip(c, n) ==
  LET dx == n[1] - c[1]
      dy == n[2] - c[2]
  IN [x |-> IF dx = 1 THEN n[1] * BLOCK_SZ_WLD
            ELSE IF dx = -1 THEN c[1] * BLOCK_SZ_WLD - FenceThickness
            ELSE c[1] * BLOCK_SZ_WLD,
      y |-> IF dy = 1 THEN n[2] * BLOCK_SZ_WLD
            ELSE IF dy = -1 THEN c[2] * BLOCK_SZ_WLD - FenceThickness
            ELSE c[2] * BLOCK_SZ_WLD,
      w |-> IF dx # 0 THEN FenceThickness ELSE BLOCK_SZ_WLD,
      h |-> IF dy # 0 THEN FenceThickness ELSE BLOCK_SZ_WLD]

\* Rectangle f has inner points in cell c
CoversPartOf(f, c) ==
  /\ f.x < (c[1] + 1) * BLOCK_SZ_WLD /\ c[1] * BLOCK_SZ_WLD < f.x + f.w
  /\ f.y < (c[2] + 1) * BLOCK_SZ_WLD /\ c[2] * BLOCK_SZ_WLD < f.y + f.h

ErrorRaised ==
  appCall'.op \in {"message", "settle"} /\ appCall'.err # NoError

\* C20: an error raised while one client message is handled, at once or
\* after an await, is caught by _wrap: it is logged, an ERROR response with
\* its code and message is sent to the socket of that connection only, no
\* error leaves _wrap, and the other connections are left as they are and
\* go on being served; when sending the response fails, that failure is
\* caught and logged as well.
C20_CaughtAtWrap ==
  /\ [](~escaped)
  /\ [][ErrorRaised =>
          LET s == appCall'.sock
              err == appCall'.err
          IN /\ appLog' # <<>> /\ appLog'[1] = err.message
             /\ \A t \in Sockets \ {s} :
                  /\ sent'[t] = NoResponse
                  /\ sockOpen'[t] = sockOpen[t]
                  /\ inFlight'[t] = inFlight[t]
             /\ sockOpen[s] =>
                  /\ sent'[s].type = "ERROR"
                  /\ sent'[s].code = err.code
                  /\ sent'[s].message = err.message
             /\ ~sockOpen[s] =>
                  /\ sent'[s] = NoResponse
                  /\ Len(appLog') \in {1, 2}]_vars

\* A message of connection 1 awaited an answer while its socket closed and
\* ended with an error: sending the response threw, which was logged, while
\* connection 2 is open and has a message waiting
C20_Witness ==
  /\ appCall.op = "settle" /\ appCall.sock = 1 /\ appCall.err # NoError
  /\ ~sockOpen[1]
  /\ Len(appLog) = 2
  /\ sockOpen[2] /\ inFlight[2] = 1

(***************************************************************************)
(* The move event and the result of moveAgent, under Spec.                 *)
(***************************************************************************)
\* C23: a moveAgent call of a tracked entity posts one move event for that
\* entity exactly when it returns true, except for a DOWN call in which no
\* transition fired, which returns true and posts nothing; a call that
\* returns false posts nothing; and a call in which the transition fired
\* returns true in every direction, UP without grounded record included.
C23_EventIffTrue ==
  [][IsMoveAgent =>
       LET quietDown == call'.dir = "DOWN" /\ ~call'.fired
       IN /\ ret' \in {"true", "false"}
          /\ (posted' # <<>>) <=> (ret' = "true" /\ ~quietDown)
          /\ posted' # <<>> =>
               posted' = <<EntityMoved(call'.id, call'.dir)>>
          /\ ret' = "false" => posted' = <<>>
          /\ call'.fired => ret' = "true"]_vars

\* C23 witness: a DOWN call in which the transition was offered and refused
\* returned true and posted nothing
C23_Witness ==
  /\ call.op = "moveAgent" /\ call.dir = "DOWN"
  /\ call.offered /\ ~call.fired
  /\ ret = "true" /\ posted = <<>>

(***************************************************************************)
(* The two tables and the grounded map, under SpecCollision.               *)
(***************************************************************************)
\* C24: after any sequence of addComponent and removeComponent calls, with
\* the engine's updates between them, the by-entity-id table and the
\* by-body-id table hold the same components: the component of an entity is
\* found under its entity id exactly when it is found under its body id,
\* and each table leads to the entry of the other.
C24_TablesAgree ==
  /\ \A e \in Entities :
       (e \in DOMAIN componentsByEntityId)
         <=> (BodyOf(e) \in DOMAIN componentsByBodyId)
  /\ \A e \in DOMAIN componentsByEntityId :
       componentsByEntityId[e] = BodyOf(e)
  /\ \A b \in DOMAIN componentsByBodyId :
       /\ componentsByBodyId[b] \in Entities
       /\ BodyOf(componentsByBodyId[b]) = b

\* C24 witness: the component of entity 1 was added again while the engine
\* still has a pair of its body from before its removal, and the component
\* of entity 2 has been removed: 1 is in both tables, 2 is in neither
C24_Witness ==
  /\ call.op = "addComponent" /\ call.id = 1
  /\ \E p \in DOMAIN pairs : BodyOf(1) \in {p[1], p[2]}
  /\ 1 \in DOMAIN componentsByEntityId
  /\ BodyOf(1) \in DOMAIN componentsByBodyId
  /\ 2 \notin DOMAIN componentsByEntityId
  /\ BodyOf(2) \notin DOMAIN componentsByBodyId

\* C25: every entity id in the grounded map is a key of the by-entity-id
\* table, whatever the order of addComponent, removeComponent and the two
\* collision handlers; a component that has just been added has no
\* grounded record, so an entity added again after a removal is grounded
\* only by a ground contact detected after that.
C25_GroundedTracked ==
  /\ [](DOMAIN grounded \subseteq DOMAIN componentsByEntityId)
  /\ [][call'.op = "addComponent" => call'.id \notin DOMAIN grounded']_vars

\* C25 witness: the component of an entity was added again, the engine
\* still has the pair of its body and the fence from before the removal,
\* and the entity has no grounded record while another entity has one
C25_Witness ==
  /\ call.op = "addComponent"
  /\ <<FenceBody, BodyOf(call.id)>> \in DOMAIN pairs
  /\ pairs[<<FenceBody, BodyOf(call.id)>>].contacts # {}
  /\ call.id \notin DOMAIN grounded
  /\ DOMAIN grounded # {}

(***************************************************************************)
(* The frame of the position setters of CSpatial, under SpecSync.          *)
(***************************************************************************)
\* The subcomponent currentMode does not select
Unselected(c) == IF c.currentMode = "GRID_MODE" THEN c.freeMode ELSE c.gridMode

\* C26: setInstantaneousPos and setStaticPos of a CSpatial change only the
\* subcomponent selected by currentMode, which takes the position given:
\* the position and the dirty flag of the other subcomponent, and
\* currentMode itself, are as before the call.
C26_OtherModeUntouched ==
  [][syncCall'.op \in {"setInstantaneousPos", "setStaticPos"} =>
       /\ cSpatial'.currentMode = cSpatial.currentMode
       /\ Unselected(cSpatial') = Unselected(cSpatial)
       /\ Selected(cSpatial').dirty]_vars

\* C26 witness: setStaticPos in free mode moved the free-mode subcomponent
\* away from the grid-mode one, which is still clean where it was
C26_Witness ==
  /\ syncCall.op = "setStaticPos"
  /\ cSpatial.currentMode = "FREE_MODE"
  /\ cSpatial.freeMode.dirty /\ ~cSpatial.gridMode.dirty
  /\ cSpatial.freeMode.x # cSpatial.gridMode.x

(***************************************************************************)
(* Properties of the client's response queue, under SpecClient.            *)
(***************************************************************************)
\* The ids of the messages in the queue q, in order
QueueIds(q) == [i \in DOMAIN q |-> q[i].id]

\* The sequence s grows strictly
Increasing(s) == \A i, j \in DOMAIN s : i < j => s[i] < s[j]

\* In the record of a tick every handling of a message comes before every
\* other step, except the throw that ends it
DrainFirst(trace) ==
  \A i, j \in DOMAIN trace :
    (trace[j].step = "handle" /\ i < j) => trace[i].step = "handle"

\* C21: a message received from the server is only appended to the response
\* queue; the messages are given to _handleServerMessage one time each, in
\* the order they arrived, by the drain at the start of a tick, before the
\* tick sends user actions, runs the scheduler and updates the entity
\* manager, never between those steps and in no other operation; and logOut
\* empties the queue, so that the messages in it are never handled.
C21_DrainedAtTickStart ==
  /\ [](/\ Increasing(handled \o QueueIds(responseQueue))
        /\ Range(handled) \cap discarded = {}
        /\ Range(handled) \cup discarded \cup Range(QueueIds(responseQueue))
             = 1 .. arrived)
  /\ [][/\ clientCall'.op = "onmessage" =>
             /\ responseQueue' # responseQueue
             /\ SubSeq(responseQueue', 1, Len(responseQueue)) = responseQueue
             /\ Len(responseQueue') = Len(responseQueue) + 1
             /\ <<handled, playerId, mapData, actionQueue, clientWs>>'
                  = <<handled, playerId, mapData, actionQueue, clientWs>>
        /\ handled' # handled =>
             /\ clientCall'.op = "tick"
             /\ DrainFirst(tickTrace')
             /\ LET n == Len(handled') - Len(handled)
                IN SubSeq(handled', Len(handled) + 1, Len(handled'))
                     = SubSeq(QueueIds(responseQueue), 1, n)
        /\ clientCall'.op = "logOut" =>
             /\ responseQueue' = <<>>
             /\ handled' = handled
             /\ Range(QueueIds(responseQueue)) \subseteq discarded']_vars

\* C21 witness: logOut dropped the first message; the two messages that
\* arrived later were handled in order by one tick, which then sent a user
\* action
C21_Witness ==
  /\ clientCall.op = "tick"
  /\ discarded = {1}
  /\ handled = <<2, 3>>
  /\ Len(tickTrace) = 6
  /\ tickTrace[1] = Step("handle", 2)
  /\ tickTrace[2] = Step("handle", 3)
  /\ tickTrace[3].step = "send"

Handled(type) ==
  /\ lobbyCall'.op = "message"
  /\ lobbyCall'.type = type
  /\ lobbyCall'.error = "NONE"

\* C27: every action the server gives to a game carries the id bound to the
\* socket it arrived on, whatever id the client wrote, and goes to the game
\* of the user record of that socket; a RESPAWN replaces the player of that
\* socket only; an action that is not JOIN_GAME arriving on a socket that
\* has joined no game gets the error BAD_MESSAGE, reaches no game and
\* changes nothing.
C27_ActsForOwnPlayer ==
  [][lobbyCall'.op = "message" =>
       LET s == lobbyCall'.sock
           own == socks[s].userId
       IN /\ \A i \in DOMAIN forwarded' :
               /\ forwarded'[i].playerId = own
               /\ own \in DOMAIN users
               /\ users[own].ws = s
               /\ forwarded'[i].game = users[own].game
          /\ Handled("RESPAWN") =>
               /\ users[own].ws = s
               /\ DOMAIN users \ DOMAIN users' = {own}
          /\ lobbyCall'.type # "JOIN_GAME" /\ own = NoUser =>
               /\ lobbyCall'.error = "BAD_MESSAGE"
               /\ forwarded' = <<>>
               /\ lobbySent' = <<Response(s, "ERROR", NoUser)>>
               /\ UNCHANGED <<socks, users, games, players>>]_vars

\* A client wrote the id of another connection's player in an action, and
\* the game got the action under the client's own id
C27_Witness ==
  /\ lobbyCall.op = "message"
  /\ lobbyCall.type = "USER_INPUT"
  /\ lobbyCall.claimed = 1
  /\ Len(forwarded) = 1
  /\ forwarded[1].playerId = socks[lobbyCall.sock].userId
  /\ forwarded[1].playerId # lobbyCall.claimed

\* C28: after a RESPAWN of a joined player the user's record is under the
\* new id and no longer under the old one, the record's playerId and the
\* socket's userId are the new id, the record has the socket and the game
\* it had, and the one response sent is NEW_PLAYER_ID with the new id, to
\* that socket; _respawnPlayer for an id with no record throws a GameError
\* and changes nothing.
C28_RespawnRekeys ==
  [][LET s == lobbyCall'.sock
         old == socks[s].userId
         new == socks'[s].userId
     IN /\ Handled("RESPAWN") =>
             /\ new # old
             /\ new \notin DOMAIN users
             /\ DOMAIN users' = (DOMAIN users \ {old}) \cup {new}
             /\ users'[new].playerId = new
             /\ users'[new].ws = s
             /\ users'[new].ws = users[old].ws
             /\ users'[new].game = users[old].game
             /\ new \in players'[users[old].game]
             /\ lobbySent' = <<Response(s, "NEW_PLAYER_ID", new)>>
        /\ lobbyCall'.op = "respawn" =>
             /\ lobbyCall'.error = "GameError"
             /\ lobbySent' = <<>>
             /\ UNCHANGED <<socks, users, games, players, nextEntityId>>]_vars

\* A joined player has respawned and has its new id
C28_Witness ==
  /\ lobbyCall.op = "message"
  /\ lobbyCall.type = "RESPAWN"
  /\ lobbyCall.error = "NONE"
  /\ Len(lobbySent) = 1
  /\ lobbySent[1].type = "NEW_PLAYER_ID"
  /\ lobbySent[1].playerId = socks[lobbyCall.sock].userId
  /\ lobbySent[1].playerId \in DOMAIN users

\* C29: a socket that has sent no pong since the _checkConnections run
\* that pinged it is terminated at the next run, whether or not it has
\* joined a game.
C29_SilentSocketTerminated ==
  [][lobbyCall'.op = "check" =>
       \A s \in Clients :
         socks[s].state = "open" /\ ~socks[s].isAlive =>
           socks'[s].state # "open"]_vars

\* C30: no game ever has more than MAX_PLAYERS_PER_GAME players; a join is
\* placed in a game that existed only if that game had fewer than
\* MAX_PLAYERS_PER_GAME players, and otherwise in a game created for it.
C30_GamesNeverOverfull ==
  /\ [](\A g \in GameIds : Cardinality(players[g]) <= MAX_PLAYERS_PER_GAME)
  /\ [][Handled("JOIN_GAME") =>
          LET new == socks'[lobbyCall'.sock].userId
              g == users'[new].game
              open == {h \in games :
                         Cardinality(players[h]) < MAX_PLAYERS_PER_GAME}
          IN /\ players'[g] = players[g] \cup {new}
             /\ g \in games'
             /\ IF g \in games
                THEN Cardinality(players[g]) < MAX_PLAYERS_PER_GAME
                ELSE open = {} /\ players[g] = {}]_vars

\* A join found the only game full and was placed in a new game
C30_Witness ==
  /\ lobbyCall.op = "message"
  /\ lobbyCall.type = "JOIN_GAME"
  /\ \E g \in games :
       /\ Cardinality(players[g]) = MAX_PLAYERS_PER_GAME
       /\ users[socks[lobbyCall.sock].userId].game # g
       /\ players[users[socks[lobbyCall.sock].userId].game]
            = {socks[lobbyCall.sock].userId}

\* C38: AgentSystem.hasComponent(id) returns true exactly when a component
\* for id has been added and not since removed, that is exactly when
\* getComponent(id) would not throw.
C38_HasComponentIffAdded ==
  [][syncCall'.op = "AgentSystem.hasComponent" =>
       (syncRet'.flag <=> syncCall'.id \in AgentIds(agentComponents))]_vars

\* C39: each run of the blimp's function either advances x by exactly 1
\* and requests no teleport, or, when the advanced x would exceed
\* worldW * BLOCK_SZ_WLD + 10 * BLOCK_SZ_WLD, puts the blimp at
\* x = -10 * BLOCK_SZ_WLD with teleport = true; so x never exceeds that
\* range and a teleport is requested only on a wrap-around.
C39_BlimpWraps ==
  /\ [][(/\ schedCall'.op = "fire"
         /\ schedCall'.kind = "blimp"
         /\ ~schedCall'.ownerGone) =>
          IF blimp.x + 1 > WorldW * BLOCK_SZ_WLD + 10 * BLOCK_SZ_WLD
          THEN blimp'.x = -10 * BLOCK_SZ_WLD /\ blimp'.teleport
          ELSE blimp'.x = blimp.x + 1 /\ ~blimp'.teleport]_vars
  /\ [](blimp.x <= WorldW * BLOCK_SZ_WLD + 10 * BLOCK_SZ_WLD)
  /\ [](blimp.teleport => blimp.x = -10 * BLOCK_SZ_WLD)

\* The blimp has just wrapped around
C39_Witness ==
  /\ schedCall.op = "fire"
  /\ schedCall.kind = "blimp"
  /\ blimp.teleport
  /\ blimp.x = BlimpXOffset
  /\ blimp.frames = 2

\* The indices of the action queue whose actions the tick has sent
SentIds(trace) ==
  LET ids == StepIds(trace, "send") IN {ids[i] : i \in DOMAIN ids}

\* C34: a tick sends a USER_INPUT action only while the player id is
\* neither unset nor dead, and the actions that were queued while it was
\* unset or dead are not sent.
C34_NoInputWhileUnsetOrDead ==
  [][clientCall'.op = "tick" =>
       /\ SentIds(tickTrace') # {} => playerId' = "ALIVE"
       /\ \A i \in SentIds(tickTrace') :
            actionQueue[i].playerId = "ALIVE"]_vars

\* The map data in force when the k-th message of msgs is handled, for a
\* client that held map data before
MapAt(msgs, before, k) ==
  LET maps == {j \in 1 .. (k - 1) : msgs[j].type = "MAP_DATA"}
  IN IF maps = {} THEN before
     ELSE msgs[CHOOSE j \in maps : \A i \in maps : i <= j].id

\* C35: a NEW_ENTITIES response handled before any MAP_DATA response
\* raises a GameError and constructs no entity; one handled after a
\* MAP_DATA constructs its entities against the map data of the latest
\* MAP_DATA; nothing else constructs entities from a response, and the
\* client has map data only from a MAP_DATA it has handled.
C35_EntitiesNeedMap ==
  /\ [][clientCall'.op = "tick" =>
          LET n == Len(handled') - Len(handled)
              msgs == SubSeq(responseQueue, 1, n)
              news == {k \in 1 .. n : msgs[k].type = "NEW_ENTITIES"}
              made == {k \in news : MapAt(msgs, mapData, k) # NoMap}
          IN /\ \A k \in news \ made :
                  /\ k = n
                  /\ tickTrace'[Len(tickTrace')] = Step("throw", msgs[k].id)
                  /\ \A i \in DOMAIN built' : built'[i].msg # msgs[k].id
             /\ Len(built') = Cardinality(made)
             /\ \A k \in made :
                  [msg |-> msgs[k].id,
                   mapData |-> MapAt(msgs, mapData, k)] \in Range(built')
             /\ mapData' = MapAt(msgs, mapData, n + 1)]_vars
  /\ [][clientCall'.op # "tick" =>
          built' = <<>> /\ mapData' = mapData]_vars

\* A tick has handled NEW_ENTITIES with no map data and has thrown
C35_Witness ==
  /\ clientCall.op = "tick"
  /\ mapData = NoMap
  /\ built = <<>>
  /\ Len(tickTrace) > 0
  /\ tickTrace[Len(tickTrace)].step = "throw"

\* C36: an end-frame callback changes the image of the sprite only if its
\* animation is what the game staged last: after a setCurrentImage or a
\* later playAnimation no end-frame callback of an earlier animation
\* replaces the current image.
C36_EndFrameOnlyIfStaged ==
  [][(/\ schedCall'.op = "fire"
      /\ schedCall'.kind = "endFrame"
      /\ sprite'.currentSprite # sprite.currentSprite) =>
       \E a \in Animations :
         /\ sprite'.currentSprite = EndFrame(a)
         /\ sprite.staged = a]_vars

\* C31: once a socket has closed or has been terminated, no record of the
\* user map refers to it; every player of a game has a record, so that no
\* player of such a socket is left in a game; and no game of the server is
\* without players.
C31_NothingLeftOfClosedSocket ==
  [](/\ \A id \in DOMAIN users :
          users[id].ws \in Clients =>
            socks[users[id].ws].state \notin {"closing", "closed"}
     /\ \A g \in GameIds : players[g] \subseteq DOMAIN users
     /\ \A g \in games : players[g] # {})

\* C32: each record of the user map references a game that is in the set
\* of games and has not been terminated; no action is given to a game
\* that has been terminated; no game is terminated twice.
C32_RecordsReferenceLiveGames ==
  /\ [](\A id \in DOMAIN users :
          /\ users[id].game \in games
          /\ terminations[users[id].game] = 0)
  /\ [](\A i \in DOMAIN forwarded : terminations[forwarded[i].game] = 0)
  /\ [](\A g \in GameIds : terminations[g] <= 1)

\* C33: when the answer of the account service to a SIGN_UP arrives, the
\* server sends the open socket one response that settles the request:
\* SIGN_UP_SUCCESS when the service succeeded, otherwise SIGN_UP_FAILURE
\* with a reason code, whatever error the service raised.
C33_SignUpSettled ==
  [][(appCall'.op = "signUp" /\ sockOpen[appCall'.sock]) =>
       LET response == sent'[appCall'.sock]
       IN IF appCall'.err = NoError
          THEN response.type = "SIGN_UP_SUCCESS"
          ELSE /\ response.type = "SIGN_UP_FAILURE"
               /\ response.code # "undefined"]_vars

\* The entries of the history that say what: where they are in it
StepsOf(what) == {i \in DOMAIN awardLog : awardLog[i].what = what}

\* C37: award notifications never overlap.  Each notification is displayed
\* no earlier than NOTIFICATION_DELAY_MS after its award was granted; two
\* notifications are displayed at least NOTIFICATION_DURATION_MS +
\* NOTIFICATION_DELAY_MS apart; the entities of a notification are removed
\* no earlier than NOTIFICATION_DURATION_MS after it was displayed, and
\* before the next notification is displayed.
C37_NotificationsNeverOverlap ==
  [](\A i \in StepsOf("displayed") :
       /\ \A g \in StepsOf("granted") :
            awardLog[g].award = awardLog[i].award =>
              awardLog[i].at >= awardLog[g].at + NOTIFICATION_DELAY_MS
       /\ \A r \in StepsOf("removed") :
            awardLog[r].award = awardLog[i].award =>
              awardLog[r].at >= awardLog[i].at + NOTIFICATION_DURATION_MS
       /\ \A j \in StepsOf("displayed") :
            j < i =>
              /\ awardLog[i].at - awardLog[j].at
                   >= NOTIFICATION_DURATION_MS + NOTIFICATION_DELAY_MS
              /\ \E r \in StepsOf("removed") :
                   r < i /\ awardLog[r].award = awardLog[j].award)

====
